---- MODULE Spec2Model ----
(***************************************************************************)
(* PrimeLine-CRM: the supplier-reply price pipeline.                       *)
(*                                                                         *)
(* Data representation.  A Python str is a sequence of one-character       *)
(* strings.  None, where a str is expected, is the one-element sequence    *)
(* None.  An optional number is <<>> (None) or <<n>>.  A price is an       *)
(* integer number of mills (1/1000 of a dollar), so the 0.01 tolerance of  *)
(* the verification is 10 mills and the price band is 10 .. 1000000.       *)
(***************************************************************************)
EXTENDS Integers, Sequences, FiniteSets, TLC

(***************************************************************************)
(* Strings                                                                 *)
(***************************************************************************)
None == <<"<None>">>

UpperChars == <<"A","B","C","D","E","F","G","H","I","J","K","L","M",
                "N","O","P","Q","R","S","T","U","V","W","X","Y","Z">>

LowerChars == <<"a","b","c","d","e","f","g","h","i","j","k","l","m",
                "n","o","p","q","r","s","t","u","v","w","x","y","z">>

Digits == {"0","1","2","3","4","5","6","7","8","9"}

AlphabetSize == Len(UpperChars)

IsUpper(c) == \E i \in 1..AlphabetSize : UpperChars[i] = c

IsLower(c) == \E i \in 1..AlphabetSize : LowerChars[i] = c

IsAlpha(c) == IsUpper(c) \/ IsLower(c)

IsSpace(c) == c = " "

\* str.lower() on one character
LowerChar(c) ==
    IF IsUpper(c)
    THEN LowerChars[CHOOSE i \in 1..AlphabetSize : UpperChars[i] = c]
    ELSE c

\* str.upper() on one character
UpperChar(c) ==
    IF IsLower(c)
    THEN UpperChars[CHOOSE i \in 1..AlphabetSize : LowerChars[i] = c]
    ELSE c

\* str.lower()
StrLower(s) == [i \in 1..Len(s) |-> LowerChar(s[i])]

\* str.strip(): drop leading and trailing whitespace
RECURSIVE LStrip(_)
LStrip(s) == IF s # <<>> /\ IsSpace(Head(s)) THEN LStrip(Tail(s)) ELSE s

RECURSIVE RStrip(_)
RStrip(s) ==
    IF s # <<>> /\ IsSpace(s[Len(s)]) THEN RStrip(SubSeq(s, 1, Len(s) - 1)) ELSE s

Strip(s) == RStrip(LStrip(s))

\* ' '.join(s.split()): the words of s separated by single blanks
RECURSIVE JoinSplit(_)
JoinSplit(s) ==
    LET t == LStrip(s) IN
    IF t = <<>> THEN <<>>
    ELSE LET n == CHOOSE k \in 1..Len(t) :
                     /\ \A j \in 1..k : ~IsSpace(t[j])
                     /\ (k = Len(t) \/ IsSpace(t[k + 1]))
             rest == JoinSplit(SubSeq(t, n + 1, Len(t)))
         IN IF rest = <<>> THEN SubSeq(t, 1, n)
            ELSE SubSeq(t, 1, n) \o <<" ">> \o rest

\* str.title(): a letter is upper-cased when it follows a non-letter (or starts
\* the string) and lower-cased when it follows a letter
Title(s) ==
    [i \in 1..Len(s) |->
        IF i > 1 /\ IsAlpha(s[i - 1]) THEN LowerChar(s[i]) ELSE UpperChar(s[i])]

\* str.endswith('"')
EndsWithQuote(s) == s # <<>> /\ s[Len(s)] = "\""

\* the bug of name.replace('  ', ' ') in place of ' '.join(name.split())
RECURSIVE ReplaceDoubleBlank(_)
ReplaceDoubleBlank(s) ==
    IF s = <<>> THEN <<>>
    ELSE IF Len(s) >= 2 /\ IsSpace(s[1]) /\ IsSpace(s[2])
    THEN <<" ">> \o ReplaceDoubleBlank(SubSeq(s, 3, Len(s)))
    ELSE <<Head(s)>> \o ReplaceDoubleBlank(Tail(s))

NormalizeNameReplaceOnce(name) == Title(ReplaceDoubleBlank(Strip(name)))

\* EmailHandler._normalize_product_name
NormalizeProductName(name) == Title(JoinSplit(name))

\* the bug of a pattern without its decimal part, r'(\d+)'
FirstDigits(s) ==
    IF \A i \in 1..Len(s) : s[i] \notin Digits THEN <<>>
    ELSE LET b == CHOOSE i \in 1..Len(s) :
                     s[i] \in Digits /\ \A j \in 1..(i - 1) : s[j] \notin Digits
         IN SubSeq(s, b, CHOOSE e \in b..Len(s) :
                             /\ \A j \in b..e : s[j] \in Digits
                             /\ (e = Len(s) \/ s[e + 1] \notin Digits))

\* the match of re.search(r'(\d+(?:\.\d+)?)', s): <<>> when there is none
FirstNumber(s) ==
    IF \A i \in 1..Len(s) : s[i] \notin Digits THEN <<>>
    ELSE LET b == CHOOSE i \in 1..Len(s) :
                     s[i] \in Digits /\ \A j \in 1..(i - 1) : s[j] \notin Digits
             RunEnd(from) ==
                 CHOOSE e \in from..Len(s) :
                     /\ \A j \in from..e : s[j] \in Digits
                     /\ (e = Len(s) \/ s[e + 1] \notin Digits)
             e1 == RunEnd(b)
         IN IF e1 + 2 <= Len(s) /\ s[e1 + 1] = "." /\ s[e1 + 2] \in Digits
            THEN SubSeq(s, b, RunEnd(e1 + 2))
            ELSE SubSeq(s, b, e1)

\* EmailHandler._normalize_width
NormalizeWidth(width) ==
    IF width = None \/ width = <<>> THEN None
    ELSE LET number == FirstNumber(Strip(width)) IN
         IF number # <<>> THEN number \o <<"\"">> ELSE None

(***************************************************************************)
(* The catalog: the products table and the Database operations on it       *)
(***************************************************************************)
\* EmailHandler._is_valid_price bounds, in mills
MIN_PRICE == 10

MAX_PRICE == 1000000

\* the 0.01 tolerance of EmailHandler.verify_database_update, in mills
PriceTolerance == 10

\* the bug of a band without its lower bound
IsValidPriceNoFloor(price) == price <= MAX_PRICE

\* EmailHandler._is_valid_price
IsValidPrice(price) == MIN_PRICE <= price /\ price <= MAX_PRICE

\* SUPPORTED_WIDTHS of add_all_widths.py
SUPPORTED_WIDTHS ==
    << <<"2",".","5","\"">>, <<"3",".","5","\"">>, <<"4","\"">>, <<"5","\"">>,
       <<"6","\"">>, <<"7","\"">>, <<"8","\"">>, <<"1","0","\"">>,
       <<"1","1","\"">>, <<"1","2","\"">>, <<"1","3","\"">>, <<"1","4","\"">> >>

Abs(x) == IF x < 0 THEN -x ELSE x

\* Python truthiness of a str-or-None and of an optional number
TruthyStr(s) == s # None /\ s # <<>>

TruthyNum(n) == n # <<>> /\ n[1] # 0

\* a row of the products table (the columns the pipeline reads or writes)
ProductRow(name, width, cost, std, minq, disc, promo, start, end, vol, at) ==
    [name |-> name, width |-> width, cost_price |-> cost, standard_price |-> std,
     min_qty_discount |-> minq, discount_percentage |-> disc,
     promotion_name |-> promo, promotion_start_date |-> start,
     promotion_end_date |-> end, volume_discounts |-> vol, updated_at |-> at]

\* the WHERE clause of update_product_price: name = ? AND width = ?
RowMatches(row, name, width) == row.name = name /\ row.width = width

\* the bug of an UPDATE whose WHERE clause leaves the width out
UpdateEveryWidth(rows, name, new_price, width, disc, minq, promo, vol, now) ==
    [ok |-> \E i \in 1..Len(rows) : rows[i].name = name,
     rows |-> [i \in 1..Len(rows) |->
                 IF rows[i].name = name
                 THEN [rows[i] EXCEPT !.standard_price = new_price,
                                      !.cost_price = new_price,
                                      !.updated_at = now]
                 ELSE rows[i]]]

\* Database.update_product_price: the value returned and the table afterwards.
\* 'now' is CURRENT_TIMESTAMP.  The processor never passes supplier_id.
UpdateProductPrice(rows, name, new_price, width, disc, minq, promo, vol, now) ==
    LET found == IF TruthyStr(width)
                 THEN \E i \in 1..Len(rows) : RowMatches(rows[i], name, width)
                 ELSE \E i \in 1..Len(rows) : rows[i].name = name
    IN
    IF ~found THEN [ok |-> FALSE, rows |-> rows]
    ELSE IF TruthyStr(width)
    THEN IF disc # <<>>
         THEN [ok |-> TRUE,
               rows |-> [i \in 1..Len(rows) |->
                   IF RowMatches(rows[i], name, width)
                   THEN [rows[i] EXCEPT
                           !.standard_price = new_price,
                           !.cost_price = IF TruthyNum(disc)
                                          THEN (new_price * 7) \div 10
                                          ELSE new_price,
                           !.discount_percentage = disc,
                           !.min_qty_discount = minq,
                           !.promotion_name = promo,
                           !.volume_discounts = vol,
                           !.updated_at = now]
                   ELSE rows[i]]]
         ELSE [ok |-> TRUE,
               rows |-> [i \in 1..Len(rows) |->
                   IF RowMatches(rows[i], name, width)
                   THEN [rows[i] EXCEPT
                           !.standard_price = new_price,
                           !.cost_price = new_price,
                           !.updated_at = now]
                   ELSE rows[i]]]
    ELSE \* no width: "pass", then commit and return True
         [ok |-> TRUE, rows |-> rows]

\* EmailHandler.verify_database_update over the rows of Database.get_products
\* the bug of a verification that trusts the write
VerifyAlwaysPasses(rows, name, price, width) == TRUE

VerifyDatabaseUpdate(rows, name, price, width) ==
    \E i \in 1..Len(rows) :
        /\ rows[i].name = name
        /\ (width = None \/ rows[i].width = width)
        /\ Abs(rows[i].standard_price - price) < PriceTolerance

\* Database.add_product: the table after the INSERT
AddProduct(rows, name, width, cost, std, minq, disc, promo, start, end, vol, now) ==
    LET w0 == Strip(width)
        width_str == IF w0 # <<>> /\ ~EndsWithQuote(w0) THEN w0 \o <<"\"">> ELSE w0
        std_price == IF std > 0 THEN std ELSE cost
    IN Append(rows, ProductRow(Strip(name), width_str, cost, std_price,
                               minq, disc, promo, start, end, vol, now))

\* sample_products of populate_sample_data: the first three of its eleven
\* rows (a promoted product in two widths and a product without promotion)
SampleProducts ==
    << [name |-> <<"W", "h", "i", "t", "e", " ", "O", "a", "k">>,
        width |-> <<"5", "\"">>, cost |-> 4250, std |-> 4500, minq |-> <<500>>,
        disc |-> <<10>>, promo |-> <<"F", "a", "l", "l">>,
        start |-> <<"2025-11-01">>, end |-> <<"2025-11-30">>,
        vol |-> <<"5", "0", "0", "+">>],
       [name |-> <<"W", "h", "i", "t", "e", " ", "O", "a", "k">>,
        width |-> <<"7", "\"">>, cost |-> 4750, std |-> 5000, minq |-> <<300>>,
        disc |-> <<12>>, promo |-> <<"W", "i", "d", "e">>,
        start |-> <<"2025-11-15">>, end |-> <<"2025-12-15">>,
        vol |-> <<"3", "0", "0", "+">>],
       [name |-> <<"R", "e", "d", " ", "O", "a", "k">>,
        width |-> <<"5", "\"">>, cost |-> 3850, std |-> 4100, minq |-> <<>>,
        disc |-> <<>>, promo |-> None, start |-> None, end |-> None,
        vol |-> None] >>

\* "for product in sample_products: self.add_product(*product)"
RECURSIVE AddSamples(_, _, _)
AddSamples(rows, samples, now) ==
    IF samples = <<>> THEN rows
    ELSE AddSamples(AddProduct(rows, Head(samples).name, Head(samples).width,
                               Head(samples).cost, Head(samples).std,
                               Head(samples).minq, Head(samples).disc,
                               Head(samples).promo, Head(samples).start,
                               Head(samples).end, Head(samples).vol, now),
                    Tail(samples), now)

\* Database.populate_sample_data: "DELETE FROM products", then the samples
PopulateSampleData(rows, now) == AddSamples(<<>>, SampleProducts, now)

\* ensure_all_widths: the rows inserted for one product name, widths k..12;
\* updated_at takes its default, CURRENT_TIMESTAMP
RECURSIVE MissingWidths(_, _, _, _)
MissingWidths(rows, name, now, k) ==
    IF k > Len(SUPPORTED_WIDTHS) THEN <<>>
    ELSE LET width == SUPPORTED_WIDTHS[k]
             template == rows[CHOOSE i \in 1..Len(rows) :
                                 /\ rows[i].name = name
                                 /\ \A j \in 1..(i - 1) : rows[j].name # name]
         IN IF \E i \in 1..Len(rows) : RowMatches(rows[i], name, width)
            THEN MissingWidths(rows, name, now, k + 1)
            ELSE <<[template EXCEPT !.width = width, !.updated_at = now]>>
                 \o MissingWidths(rows, name, now, k + 1)

\* ensure_all_widths over the product names at positions n.. of the table
RECURSIVE EnsureFrom(_, _, _, _)
EnsureFrom(rows, orig, now, n) ==
    IF n > Len(orig) THEN rows
    ELSE IF \E j \in 1..(n - 1) : orig[j].name = orig[n].name
         THEN EnsureFrom(rows, orig, now, n + 1)
         ELSE EnsureFrom(rows \o MissingWidths(rows, orig[n].name, now, 1),
                         orig, now, n + 1)

\* the bug of a completion that handles the first product name only
EnsureFirstNameOnly(rows, now) ==
    IF rows = <<>> THEN rows
    ELSE rows \o MissingWidths(rows, rows[1].name, now, 1)

\* ensure_all_widths: the table afterwards (the count returned is the growth)
EnsureAllWidths(rows, now) == EnsureFrom(rows, rows, now, 1)

(***************************************************************************)
(* The mailbox: Gmail search over the account's messages                   *)
(***************************************************************************)
\* a Gmail query: the subject phrase (search terms are matched word by word,
\* ignoring case and punctuation) and whether it carries is:unread.  None of
\* the queries carries in:inbox, so archived mail stays in their scope.
GmailQuery(phrase, unread_only) == [phrase |-> phrase, unread_only |-> unread_only]

PhraseRePrimeLine == <<"re", "price", "update", "request", "primeline", "flooring">>

PhraseReFloorCraft == <<"re", "price", "update", "request", "floorcraft", "ai">>

PhraseReRequest == <<"re", "price", "update", "request">>

PhrasePriceUpdate == <<"price", "update">>

\* queries_to_try of check_replies_and_save, in its order
queries_to_try ==
    << GmailQuery(PhraseRePrimeLine, TRUE),
       GmailQuery(PhraseReFloorCraft, TRUE),
       GmailQuery(PhraseReRequest, TRUE),
       GmailQuery(PhraseRePrimeLine, FALSE),
       GmailQuery(PhraseReFloorCraft, FALSE),
       GmailQuery(PhraseReRequest, FALSE),
       GmailQuery(PhrasePriceUpdate, FALSE) >>

\* max_results of the check_inbox call
max_results == 20

\* subject:"phrase": the words of the phrase occur consecutively in the subject
ContainsPhrase(subject, phrase) ==
    \E i \in 1..(Len(subject) - Len(phrase) + 1) :
        SubSeq(subject, i, i + Len(phrase) - 1) = phrase

(***************************************************************************)
(* The extraction engine                                                   *)
(*                                                                         *)
(* What the LLM answers and what the regular expressions match are         *)
(* properties of the email body, so a body is modelled by them:            *)
(*   llm         the LLM's answer: status "ok" with the product records of *)
(*               its JSON, or "error" / "nojson"                           *)
(*   gregex      the products GeminiClient._fallback_email_parse finds     *)
(*   hregex      the products EmailHandler._fallback_email_parse finds     *)
(*   promo_info  the result of EmailHandler._extract_promotion_info        *)
(*   volume_disc the result of EmailHandler._parse_volume_discounts        *)
(* A JSON value of unknown type is tagged: a name is [t, s] with t one of  *)
(* "missing", "null", "num", "str"; a price is [t, v] with t one of        *)
(* "missing", "num", "numstr", "badstr", "list".                           *)
(***************************************************************************)
NoValue == [t |-> "none", s |-> None]

StrValue(s) == [t |-> "str", s |-> s]

DictValue(s) == [t |-> "dict", s |-> s]

\* an extracted product record (ExtractedProductUpdate)
Product(name, price, width, disc, minq, promotion, vol) ==
    [name |-> name, price_per_sqft |-> price, width |-> width,
     discount_percentage |-> disc, min_qty_discount |-> minq,
     promotion |-> promotion, volume_discounts |-> vol]

\* the result of an extraction: None, or a dict with a products list
NoData == [ok |-> FALSE, products |-> <<>>]

Extracted(products) == [ok |-> TRUE, products |-> products]

\* product.get("name", "").strip() raises AttributeError on null or a number
RaisesAttributeError(raw) == raw.name.t \in {"null", "num"}

\* "if name and price" of parse_email_response
RawTruthy(raw) ==
    /\ raw.name.t = "str" /\ Strip(raw.name.s) # <<>>
    /\ \/ raw.price.t = "num" /\ raw.price.v # 0
       \/ raw.price.t \in {"numstr", "badstr", "list"}

\* float(price) succeeds and the price is within 0.01 .. 1000.0
RawPriceOk(raw) ==
    /\ raw.price.t \in {"num", "numstr"}
    /\ MIN_PRICE <= raw.price.v /\ raw.price.v <= MAX_PRICE

\* the validated_product built from one record that passed
ValidatedProduct(raw) ==
    LET width_str == Strip(raw.width)
    IN Product(Strip(raw.name.s), raw.price.v,
               IF TruthyStr(raw.width)
               THEN IF width_str # <<>> /\ ~EndsWithQuote(width_str)
                    THEN width_str \o <<"\"">> ELSE width_str
               ELSE None,
               raw.discount_percentage, raw.min_qty_discount,
               IF TruthyStr(raw.promotion) THEN StrValue(Strip(raw.promotion))
               ELSE NoValue,
               IF TruthyStr(raw.volume_discounts)
               THEN StrValue(Strip(raw.volume_discounts)) ELSE NoValue)

\* the validation loop of parse_email_response over result["products"]
RECURSIVE ValidateProducts(_)
ValidateProducts(raws) ==
    IF raws = <<>> THEN <<>>
    ELSE IF RawTruthy(Head(raws)) /\ RawPriceOk(Head(raws))
         THEN <<ValidatedProduct(Head(raws))>> \o ValidateProducts(Tail(raws))
         ELSE ValidateProducts(Tail(raws))

\* wood_types of both regex parsers
WoodTypes ==
    { <<"o", "a", "k">>, <<"m", "a", "p", "l", "e">>,
      <<"w", "a", "l", "n", "u", "t">>, <<"b", "a", "m", "b", "o", "o">>,
      <<"c", "o", "r", "k">>, <<"c", "h", "e", "r", "r", "y">>,
      <<"h", "i", "c", "k", "o", "r", "y">>, <<"a", "s", "h">> }

\* "any(wood in name.lower() for wood in wood_types)"
IsWoodName(name) ==
    \E wood \in WoodTypes :
        \E i \in 1..(Len(name) - Len(wood) + 1) :
            SubSeq(StrLower(name), i, i + Len(wood) - 1) = wood

\* "if product not in products: products.append(product)" over a list
RECURSIVE AppendNew(_, _)
AppendNew(products, more) ==
    IF more = <<>> THEN products
    ELSE AppendNew(IF \E i \in 1..Len(products) : products[i] = Head(more)
                   THEN products ELSE Append(products, Head(more)),
                   Tail(more))

\* GeminiClient._fallback_email_parse: body.gregex holds what its patterns
\* match, in the order of the matches
GeminiFallback(body) ==
    LET found == [i \in 1..Len(body.gregex) |->
                    Product(NormalizeProductName(body.gregex[i].name),
                            body.gregex[i].price_per_sqft, body.gregex[i].width,
                            <<>>, <<>>, NoValue, NoValue)]
        kept == SelectSeq(found, LAMBDA p :
                    /\ IsWoodName(p.name) /\ Len(p.name) > 2
                    /\ MIN_PRICE <= p.price_per_sqft
                    /\ p.price_per_sqft <= MAX_PRICE)
        products == AppendNew(<<>>, kept)
    IN IF products = <<>> THEN NoData ELSE Extracted(products)

\* GeminiClient.parse_email_response of an initialized client
ParseEmailResponse(body) ==
    IF body.llm.status # "ok" THEN GeminiFallback(body)
    ELSE IF \E i \in 1..Len(body.llm.products) :
                RaisesAttributeError(body.llm.products[i])
         THEN \* caught by "except Exception": the whole answer is abandoned
              GeminiFallback(body)
         ELSE LET validated_products == ValidateProducts(body.llm.products)
              IN IF validated_products # <<>> THEN Extracted(validated_products)
                 ELSE GeminiFallback(body)

\* EmailHandler._fallback_email_parse: body.hregex holds what its patterns
\* match, each with the discount and the minimum quantity found in the body
HandlerFallback(body) ==
    LET found == [i \in 1..Len(body.hregex) |->
                    Product(NormalizeProductName(body.hregex[i].name),
                            body.hregex[i].price_per_sqft,
                            IF TruthyStr(body.hregex[i].width)
                            THEN NormalizeWidth(body.hregex[i].width) ELSE None,
                            body.hregex[i].discount_percentage,
                            body.hregex[i].min_qty_discount,
                            body.promo_info, body.volume_disc)]
        kept == SelectSeq(found, LAMBDA p :
                    /\ IsWoodName(p.name) /\ Len(p.name) > 2
                    /\ IsValidPrice(p.price_per_sqft))
        products == AppendNew(<<>>, kept)
    IN IF products = <<>> THEN NoData ELSE Extracted(products)

\* the bug of an extraction that has no regex fallback
ExtractLlmOnly(body, gemini_client) ==
    IF gemini_client # "ok" THEN NoData ELSE ParseEmailResponse(body)

\* EmailHandler._extract_prices_with_gemini; gemini_client is "none" (None),
\* "uninit" (a client whose initialized is False) or "ok"
ExtractPricesWithGemini(body, gemini_client) ==
    IF gemini_client # "ok" THEN HandlerFallback(body)
    ELSE LET parsed_data == ParseEmailResponse(body)
         IN IF ~parsed_data.ok THEN HandlerFallback(body)
            ELSE Extracted(
                   [i \in 1..Len(parsed_data.products) |->
                      [parsed_data.products[i] EXCEPT
                         !.promotion = IF body.promo_info.t # "none"
                                       THEN body.promo_info ELSE @,
                         !.volume_discounts = IF body.volume_disc.t # "none"
                                              THEN body.volume_disc ELSE @]])

\* json.dumps of a volume-discount dict
JsonDumps(v) == <<"{">> \o v.s \o <<"}">>

(***************************************************************************)
(* The inputs the model draws from                                         *)
(***************************************************************************)
Oak == <<"O", "a", "k">>

Ash == <<"A", "s", "h">>

W5 == <<"5", "\"">>

W7 == <<"7", "\"">>

\* the authenticated account's address, a sender that is the same address in
\* another case, and a supplier's address
AccountAddress == <<"m", "e", "@", "x">>

SelfSender == <<"M", "e", "@", "x">>

SupplierSender == <<"s", "@", "y">>

\* the catalog the runs start from
InitialCatalog ==
    << ProductRow(Oak, W5, 4100, 4100, <<>>, <<>>, None, None, None, None, 0),
       ProductRow(Oak, W7, 3950, 3950, <<>>, <<>>, None, None, None, None, 0) >>

RawProduct(name, price, width) ==
    [name |-> name, price |-> price, width |-> width,
     discount_percentage |-> <<>>, min_qty_discount |-> <<>>,
     promotion |-> None, volume_discounts |-> None]

RawStr(s) == [t |-> "str", s |-> s]

RawNull == [t |-> "null", s |-> <<>>]

RawNum(v) == [t |-> "num", v |-> v]

RawBadStr == [t |-> "badstr", v |-> 0]

Body(llm_status, llm_products, gregex, hregex, promo_info, volume_disc) ==
    [llm |-> [status |-> llm_status, products |-> llm_products],
     gregex |-> gregex, hregex |-> hregex,
     promo_info |-> promo_info, volume_disc |-> volume_disc]

\* "Oak 5 inch is now $3.95, 12% off above 550 sqft"
BodyGood ==
    Body("ok", << RawProduct(RawStr(<<" ", "o", "a", "k">>), RawNum(3950),
                             <<"5", " ", "i", "n", "c", "h">>) >>,
         << Product(Oak, 3950, W5, <<>>, <<>>, NoValue, NoValue) >>,
         << Product(Oak, 3950, W5, <<12>>, <<550>>, NoValue, NoValue) >>,
         NoValue, NoValue)

\* the LLM answers a record with a non-numeric price, one with a price outside
\* the band, "oak: $4.50" without a width and "oak 7 inch: $4.50"
BodyTwo ==
    Body("ok", << RawProduct(RawStr(<<"o", "a", "k">>), RawBadStr, W5),
                  RawProduct(RawStr(<<"o", "a", "k">>), RawNum(2000000), W5),
                  RawProduct(RawStr(<<"o", "a", "k">>), RawNum(4500), None),
                  RawProduct(RawStr(<<"o", "a", "k">>), RawNum(4500), W7) >>,
         << Product(Oak, 4500, None, <<>>, <<>>, NoValue, NoValue),
            Product(Oak, 4500, W7, <<>>, <<>>, NoValue, NoValue) >>,
         << Product(Oak, 4500, None, <<>>, <<>>, NoValue, NoValue),
            Product(Oak, 4500, W7, <<>>, <<>>, NoValue, NoValue) >>,
         NoValue, NoValue)

\* "ash 5": $3.00; oak: $3.00": a product the catalog does not hold and a
\* product without a width at a price no catalog row has
BodyUnknown ==
    Body("ok", << RawProduct(RawStr(<<"a", "s", "h">>), RawNum(3000), W5),
                  RawProduct(RawStr(<<"o", "a", "k">>), RawNum(3000), None) >>,
         << Product(Ash, 3000, W5, <<>>, <<>>, NoValue, NoValue),
            Product(Oak, 3000, None, <<>>, <<>>, NoValue, NoValue) >>,
         << Product(Ash, 3000, W5, <<>>, <<>>, NoValue, NoValue),
            Product(Oak, 3000, None, <<>>, <<>>, NoValue, NoValue) >>,
         NoValue, NoValue)

\* the LLM answers a record with "name": null beside a valid one; the
\* regular expressions match nothing in the body
BodyNullName ==
    Body("ok", << RawProduct(RawNull, RawNum(4250), None),
                  RawProduct(RawStr(<<"o", "a", "k">>), RawNum(3950), W5) >>,
         <<>>, <<>>, NoValue, NoValue)

Message(id, thread_id, subject, sender, body) ==
    [id |-> id, thread_id |-> thread_id, subject |-> subject, sender |-> sender,
     body |-> body]

\* the messages a mailbox of the model is made of; a message's id is its
\* position here
Mail ==
    << Message(1, "t1", <<"re", "price", "update", "request", "primeline", "flooring">>,
               SupplierSender, BodyGood),
       Message(2, "t2", <<"re", "price", "update", "request", "primeline", "flooring">>,
               SelfSender, BodyGood),
       Message(3, "t3", <<"re", "price", "update", "request", "floorcraft", "ai">>,
               SupplierSender, BodyTwo),
       Message(4, "t4", <<"fw", "price", "update">>,
               SupplierSender, BodyUnknown),
       Message(5, "t5", <<"re", "price", "update", "request", "primeline", "flooring">>,
               SupplierSender, BodyNullName) >>

MessageIds == 1..Len(Mail)

\* the threads started by send_price_request
RequestThreads == {"t1", "t3", "t5"}

\* the callers of check_replies_and_save: the Streamlit script thread ("ui") and
\* the scheduler's background thread ("sched")
Runners == {"ui", "sched"}

\* bounds of the model
MaxMsgs == 2

MaxRuns == 2

MaxRows == 2

MaxClock == 2

(***************************************************************************)
(* State                                                                   *)
(***************************************************************************)
VARIABLES
    db_products,              \* the rows of the products table
    clock,                    \* CURRENT_TIMESTAMP of the database
    db_call,                  \* the last direct call of a Database operation
    mailbox,                  \* ids of the account's messages, newest first
    unread,                   \* ids of the messages labelled UNREAD
    inbox,                    \* ids of the messages labelled INBOX
    sent_request_thread_ids,  \* EmailHandler.sent_request_thread_ids
    gemini,                   \* the gemini client of the app: none or ok
    run,                      \* per caller: the locals of check_replies_and_save
    started,                  \* number of runs started so far
    ev                        \* what the last step did (calls it issued)

vars == <<db_products, clock, db_call, mailbox, unread, inbox,
          sent_request_thread_ids, gemini, run, started, ev>>

catalog_vars == <<db_products, clock, db_call>>

mail_vars == <<mailbox, unread, inbox>>

\* the locals of a caller that is not inside check_replies_and_save
IdleRun ==
    [pc |-> "idle", own_email |-> <<>>, qi |-> 1, messages |-> <<>>, mi |-> 1,
     response |-> NoData, pi |-> 1,
     cur |-> [name |-> <<>>, width |-> None, price |-> 0],
     updated_products |-> <<>>, results |-> <<>>,
     rejected |-> FALSE, unverified |-> FALSE,
     returned |-> <<>>]

Event(op, r, id, marked, archived, n) ==
    [op |-> op, r |-> r, id |-> id, marked |-> marked, archived |-> archived, n |-> n]

NoEvent == Event("none", "ui", 0, FALSE, FALSE, 0)

NoCall ==
    [op |-> "none", name |-> <<>>, width |-> None, price |-> 0, ok |-> FALSE, at |-> 0]

\* the ascending sequences of at most MaxMsgs message ids
Mailboxes ==
    {m \in UNION {[1..n -> MessageIds] : n \in 1..MaxMsgs} :
        \A i \in 1..(Len(m) - 1) : m[i] < m[i + 1]}

SeqToSet(q) == {q[i] : i \in 1..Len(q)}

Init ==
    /\ db_products = InitialCatalog
    /\ clock = 1
    /\ db_call = NoCall
    /\ mailbox \in Mailboxes
    /\ unread = SeqToSet(mailbox)
    /\ inbox = SeqToSet(mailbox)
    /\ sent_request_thread_ids = RequestThreads
    /\ gemini \in {"none", "ok"}
    /\ run = [r \in Runners |-> IdleRun]
    /\ started = 0
    /\ ev = NoEvent

(***************************************************************************)
(* GmailService                                                            *)
(***************************************************************************)
\* a message is in the scope of a query
Matches(id, query) ==
    /\ ContainsPhrase(Mail[id].subject, query.phrase)
    /\ (query.unread_only => id \in unread)

\* GmailService.check_inbox(query, max_results): the ids of the messages found
CheckInbox(query) ==
    LET found == SelectSeq(mailbox, LAMBDA id : Matches(id, query))
    IN IF Len(found) > max_results THEN SubSeq(found, 1, max_results) ELSE found

\* GmailService.get_user_email: the profile's address, or '' when the
\* profile request fails
GetUserEmail == {AccountAddress, <<>>}

\* GmailService.mark_as_read: the UNREAD labels afterwards; ok is FALSE when
\* the API answers with an HttpError
MarkAsRead(labelled, id, ok) == IF ok THEN labelled \ {id} ELSE labelled

\* GmailService.archive_message: the INBOX labels afterwards
ArchiveMessage(labelled, id, ok) == IF ok THEN labelled \ {id} ELSE labelled

(***************************************************************************)
(* EmailHandler.check_replies_and_save, one action per step of a caller r  *)
(***************************************************************************)
\* "if own_email and sender.lower() == own_email.lower()"
IsSelfSent(own_email, sender) ==
    TruthyStr(own_email) /\ StrLower(sender) = StrLower(own_email)

\* the bugs of finalizing every message and of finalizing none
FinalizeAlways(updated_products) == TRUE

FinalizeNever(updated_products) == FALSE

\* "if updated_products:"
FinalizeNeeded(updated_products) == updated_products # <<>>

\* the bug of a query loop without its "break"
QueryOutcomeNoBreak(found, qi) ==
    IF qi < Len(queries_to_try) THEN "next"
    ELSE IF found # <<>> THEN "process" ELSE "empty"

\* the query loop after one check_inbox: "break" and process what was found,
\* go on to the next query, or "return []" after the last one
QueryOutcome(found, qi) ==
    IF found # <<>> THEN "process"
    ELSE IF qi < Len(queries_to_try) THEN "next" ELSE "empty"

Set(r, locals) == run' = [run EXCEPT ![r] = locals]

\* a caller enters check_replies_and_save and reads its own address.  The
\* scheduler's daily_reply_check returns at once without a gemini client.
StartRun(r) ==
    /\ run[r].pc = "idle"
    /\ started < MaxRuns
    /\ r = "sched" => gemini # "none"
    /\ \E own_email \in GetUserEmail :
          Set(r, [IdleRun EXCEPT !.pc = "query", !.own_email = own_email,
                                 !.returned = run[r].returned])
    /\ started' = started + 1
    /\ ev' = Event("start", r, 0, FALSE, FALSE, 0)
    /\ UNCHANGED <<catalog_vars, mail_vars, sent_request_thread_ids, gemini>>

\* one iteration of "for query, description in queries_to_try"
QueryInbox(r) ==
    /\ run[r].pc = "query"
    /\ LET qi == run[r].qi
           found == CheckInbox(queries_to_try[qi])
           outcome == QueryOutcome(found, qi)
       IN /\ IF outcome = "process"
             THEN Set(r, [run[r] EXCEPT !.pc = "message", !.messages = found,
                                        !.mi = 1, !.results = <<>>])
             ELSE IF outcome = "next"
             THEN Set(r, [run[r] EXCEPT !.qi = qi + 1])
             ELSE Set(r, [run[r] EXCEPT !.pc = "idle", !.returned = <<>>])
          /\ ev' = Event("query", r, 0, FALSE, FALSE, 0)
    /\ UNCHANGED <<catalog_vars, mail_vars, sent_request_thread_ids, gemini, started>>

\* the head of "for message in messages": the self filter and the extraction
ProcessMessage(r) ==
    /\ run[r].pc = "message"
    /\ run[r].mi <= Len(run[r].messages)
    /\ LET id == run[r].messages[run[r].mi]
           message == Mail[id]
           response == ExtractPricesWithGemini(message.body, gemini)
       IN IF IsSelfSent(run[r].own_email, message.sender)
          THEN /\ Set(r, [run[r] EXCEPT !.mi = @ + 1])
               /\ ev' = Event("skip_self", r, id, FALSE, FALSE, 0)
          ELSE /\ ev' = Event("extract", r, id, FALSE, FALSE, Len(response.products))
               /\ IF ~response.ok \/ response.products = <<>>
                  THEN Set(r, [run[r] EXCEPT !.mi = @ + 1, !.response = response])
                  ELSE Set(r, [run[r] EXCEPT !.pc = "product", !.response = response,
                                             !.pi = 1, !.updated_products = <<>>,
                                             !.rejected = FALSE,
                                             !.unverified = FALSE])
    /\ UNCHANGED <<catalog_vars, mail_vars, sent_request_thread_ids, gemini, started>>

\* "return results" after the last message
ReturnResults(r) ==
    /\ run[r].pc = "message"
    /\ run[r].mi > Len(run[r].messages)
    /\ Set(r, [run[r] EXCEPT !.pc = "idle", !.returned = run[r].results])
    /\ ev' = Event("return", r, 0, FALSE, FALSE, 0)
    /\ UNCHANGED <<catalog_vars, mail_vars, sent_request_thread_ids, gemini, started>>

\* "if not name or not price: continue" and "if not self._is_valid_price(...):
\* continue" of the product loop
ProductRejected(product) ==
    \/ ~TruthyStr(product.name)
    \/ product.price_per_sqft = 0
    \/ ~IsValidPrice(product.price_per_sqft)

\* the arguments of the update_product_price call of the product loop
UpdateArgs(product) ==
    [name |-> NormalizeProductName(product.name),
     new_price |-> product.price_per_sqft,
     width |-> IF TruthyStr(product.width) THEN NormalizeWidth(product.width)
               ELSE None,
     discount_percentage |-> product.discount_percentage,
     min_qty |-> product.min_qty_discount,
     promotion_name |-> IF product.promotion.t = "dict" THEN product.promotion.s
                        ELSE None,
     volume_discounts |-> IF product.volume_discounts.t = "dict"
                          THEN JsonDumps(product.volume_discounts)
                          ELSE product.volume_discounts.s]

\* one iteration of "for product in products" up to the update_product_price
\* call
ProcessProduct(r) ==
    /\ run[r].pc = "product"
    /\ run[r].pi <= Len(run[r].response.products)
    /\ LET id == run[r].messages[run[r].mi]
           product == run[r].response.products[run[r].pi]
           args == UpdateArgs(product)
           upd == UpdateProductPrice(db_products, args.name, args.new_price,
                                     args.width, args.discount_percentage,
                                     args.min_qty, args.promotion_name,
                                     args.volume_discounts, clock)
       IN IF ProductRejected(product)
          THEN /\ ev' = Event("skip", r, id, FALSE, FALSE, 0)
               /\ Set(r, [run[r] EXCEPT !.pi = @ + 1])
               /\ UNCHANGED db_products
          ELSE /\ ev' = Event("update", r, id, FALSE, FALSE, 0)
               /\ db_products' = upd.rows
               /\ IF upd.ok
                  THEN Set(r, [run[r] EXCEPT
                                 !.pc = "verify",
                                 !.cur = [name |-> args.name, width |-> args.width,
                                          price |-> args.new_price]])
                  ELSE Set(r, [run[r] EXCEPT !.pi = @ + 1, !.rejected = TRUE])
    /\ UNCHANGED <<clock, db_call, mail_vars, sent_request_thread_ids, gemini, started>>

\* "if success: verified = self.verify_database_update(...)"
VerifyProduct(r) ==
    /\ run[r].pc = "verify"
    /\ LET id == run[r].messages[run[r].mi]
           cur == run[r].cur
           verified == VerifyDatabaseUpdate(db_products, cur.name, cur.price, cur.width)
       IN /\ ev' = Event("verify", r, id, FALSE, FALSE, 0)
          /\ IF verified
             THEN Set(r, [run[r] EXCEPT !.pc = "product", !.pi = @ + 1,
                                        !.updated_products = Append(@, cur)])
             ELSE Set(r, [run[r] EXCEPT !.pc = "product", !.pi = @ + 1,
                                        !.unverified = TRUE])
    /\ UNCHANGED <<catalog_vars, mail_vars, sent_request_thread_ids, gemini, started>>

\* the bug of an untracking that forgets every outstanding request
UntrackEverything(thread_ids, thread_id) == {}

\* "if thread_id and thread_id in self.sent_request_thread_ids:
\*      self.sent_request_thread_ids.remove(thread_id)"
UntrackThread(thread_ids, thread_id) ==
    IF thread_id \in thread_ids THEN thread_ids \ {thread_id} ELSE thread_ids

\* the bug of a result that reports the number of extracted products
ResultEntryAllCounted(message, products, updated_products) ==
    [supplier |-> message.sender, products |-> updated_products,
     status |-> "processed", count |-> Len(products)]

\* the dict appended to results; count is the number in its 'message' text
ResultEntry(message, products, updated_products) ==
    [supplier |-> message.sender, products |-> updated_products,
     status |-> "processed", count |-> Len(updated_products)]

\* after the last product: "if updated_products:" mark read, archive, untrack
\* the thread and append the result
FinalizeMessage(r) ==
    /\ run[r].pc = "product"
    /\ run[r].pi > Len(run[r].response.products)
    /\ LET id == run[r].messages[run[r].mi]
           message == Mail[id]
           updated_products == run[r].updated_products
       IN IF FinalizeNeeded(updated_products)
          THEN /\ \E read_ok \in BOOLEAN, archive_ok \in BOOLEAN :
                     /\ unread' = MarkAsRead(unread, id, read_ok)
                     /\ inbox' = ArchiveMessage(inbox, id, archive_ok)
               /\ sent_request_thread_ids' =
                      UntrackThread(sent_request_thread_ids, message.thread_id)
               /\ Set(r, [run[r] EXCEPT
                            !.pc = "message", !.mi = @ + 1,
                            !.results = Append(@,
                                ResultEntry(message, run[r].response.products,
                                            updated_products))])
               /\ ev' = Event("finalize", r, id, TRUE, TRUE, Len(updated_products))
          ELSE /\ Set(r, [run[r] EXCEPT !.pc = "message", !.mi = @ + 1])
               /\ ev' = Event("finalize", r, id, FALSE, FALSE, 0)
               /\ UNCHANGED <<unread, inbox, sent_request_thread_ids>>
    /\ UNCHANGED <<catalog_vars, mailbox, gemini, started>>

Next ==
    \E r \in Runners :
        \/ StartRun(r)
        \/ QueryInbox(r)
        \/ ProcessMessage(r)
        \/ ReturnResults(r)
        \/ ProcessProduct(r)
        \/ VerifyProduct(r)
        \/ FinalizeMessage(r)

Spec == Init /\ [][Next]_vars

(***************************************************************************)
(* The Database operations called directly (scripts, the manual update of  *)
(* the supplier page), on a table that init_db has just created            *)
(***************************************************************************)
DbCall(op, name, width, price, ok) ==
    [op |-> op, name |-> name, width |-> width, price |-> price, ok |-> ok,
     at |-> clock]

CatalogInit ==
    /\ db_products = <<>>
    /\ clock = 1
    /\ db_call = NoCall
    /\ mailbox = <<>>
    /\ unread = {}
    /\ inbox = {}
    /\ sent_request_thread_ids = {}
    /\ gemini = "none"
    /\ run = [r \in Runners |-> IdleRun]
    /\ started = 0
    /\ ev = NoEvent

rest_vars == <<mail_vars, sent_request_thread_ids, gemini, run, started, ev>>

\* time passes: CURRENT_TIMESTAMP advances by a second
Tick ==
    /\ clock < MaxClock
    /\ clock' = clock + 1
    /\ UNCHANGED <<db_products, db_call, rest_vars>>

\* db.add_product(name, width, ..., cost_price, standard_price, ...)
DbAddProduct ==
    /\ Len(db_products) < MaxRows
    /\ \E width \in {<<"5">>, W5, W7} :
          /\ db_products' = AddProduct(db_products, <<"O", "a", "k", " ">>, width,
                                       3850, 4100, <<>>, <<>>, None, None, None,
                                       None, clock)
          /\ db_call' = DbCall("add_product", Oak, width, 4100, TRUE)
    /\ UNCHANGED <<clock, rest_vars>>

\* ensure_all_widths(db)
DbEnsureAllWidths ==
    /\ db_products' = EnsureAllWidths(db_products, clock)
    /\ db_call' = DbCall("ensure_all_widths", <<>>, None,
                         Len(db_products') - Len(db_products), TRUE)
    /\ UNCHANGED <<clock, rest_vars>>

\* the products priced by hand: one added by add_product, one that is not in
\* the catalog, and the promoted product of the samples
UpdateNames == {Oak, Ash, SampleProducts[1].name}

UpdateWidths == {W5, None}

\* discount_percentage: not given, or 10
UpdateDiscounts == {<<>>, <<10>>}

\* db.update_product_price(name, new_price, width, discount_percentage=...)
DbUpdatePrice ==
    /\ \E name \in UpdateNames, width \in UpdateWidths, disc \in UpdateDiscounts :
          LET upd == UpdateProductPrice(db_products, name, 4500, width,
                                        disc, <<>>, None, None, clock)
          IN /\ db_products' = upd.rows
             /\ db_call' = DbCall("update_price", name, width, 4500, upd.ok)
    /\ UNCHANGED <<clock, rest_vars>>

\* db.populate_sample_data()
DbPopulateSampleData ==
    /\ db_products' = PopulateSampleData(db_products, clock)
    /\ db_call' = DbCall("populate_sample_data", <<>>, None, 0, TRUE)
    /\ UNCHANGED <<clock, rest_vars>>

CatalogNext ==
    \/ Tick
    \/ DbAddProduct
    \/ DbEnsureAllWidths
    \/ DbUpdatePrice
    \/ DbPopulateSampleData

SpecCatalog == CatalogInit /\ [][CatalogNext]_vars

(***************************************************************************)
(* The extraction of one body and the product loop over what it yields,    *)
(* without the mailbox and the catalog: ev holds the body, the response    *)
(* and the arguments of the last update_product_price call                 *)
(***************************************************************************)
RawProductWith(name, price, width, disc, minq, promotion, vol) ==
    [name |-> name, price |-> price, width |-> width,
     discount_percentage |-> disc, min_qty_discount |-> minq,
     promotion |-> promotion, volume_discounts |-> vol]

SpringSale == <<"S", "a", "l", "e">>

TierText == <<"5", "0", "0", "+", ":", "5", "%">>

\* the product lists of the LLM answers: none, one bare record, a record
\* with a null name beside a valid one, a price that is no number, a record
\* with every optional field, a price above the band, and a width written
\* with its unit
LlmAnswers ==
    { <<>>,
      << RawProduct(RawStr(<<"o", "a", "k">>), RawNum(3950),
                    <<"7", " ", "i", "n", "c", "h">>) >>,
      << RawProduct(RawStr(<<"o", "a", "k">>), RawNum(3950), <<"5">>) >>,
      << RawProduct(RawNull, RawNum(4250), None),
         RawProduct(RawStr(<<"o", "a", "k">>), RawNum(3950), W5) >>,
      << RawProduct(RawStr(<<"o", "a", "k">>), RawBadStr, W5) >>,
      << RawProductWith(RawStr(<<"o", "a", "k">>), RawNum(4250), W7,
                        <<10>>, <<500>>, SpringSale, TierText) >>,
      << RawProduct(RawStr(<<"o", "a", "k">>), RawNum(MAX_PRICE + 1), W5),
         RawProduct(RawStr(<<"a", "s", "h">>), RawNum(MAX_PRICE), None) >> }

\* what the LLM call comes to: an answer, an exception, no JSON, or JSON
\* whose "products" is absent or no list
LlmOutcomes ==
    {[status |-> "ok", products |-> a] : a \in LlmAnswers}
        \cup {[status |-> st, products |-> <<>>] : st \in {"error", "nojson", "shape"}}

\* what the patterns of GeminiClient._fallback_email_parse match
GeminiMatches ==
    { <<>>,
      << Product(<<"o", "a", "k">>, 4500, W7, <<>>, <<>>, NoValue, NoValue) >>,
      << Product(<<"o", "a", "k">>, MAX_PRICE + 1, W5, <<>>, <<>>, NoValue, NoValue) >> }

\* what the patterns of EmailHandler._fallback_email_parse match
HandlerMatches ==
    { <<>>,
      << Product(<<"o", "a", "k">>, 3950, <<"5">>, <<12>>, <<550>>, NoValue, NoValue) >>,
      << Product(<<"p", "i", "n", "e">>, 3000, None, <<>>, <<>>, NoValue, NoValue) >>,
      << Product(<<"a", "s", "h">>, MIN_PRICE - 1, None, <<>>, <<>>, NoValue, NoValue),
         Product(<<"a", "s", "h">>, MIN_PRICE, None, <<>>, <<>>, NoValue, NoValue) >> }

\* _extract_promotion_info: nothing, a dict with a name, a dict without one
PromoInfos == {NoValue, DictValue(SpringSale), DictValue(None)}

\* _parse_volume_discounts: nothing or a dict of tiers
VolumeDiscs == {NoValue, DictValue(<<"5", "0", "0", "-", "i", "n", "f">>)}

ExtractBodies ==
    {[llm |-> l, gregex |-> g, hregex |-> h, promo_info |-> pr, volume_disc |-> v] :
        l \in LlmOutcomes, g \in GeminiMatches, h \in HandlerMatches,
        pr \in PromoInfos, v \in VolumeDiscs}

\* no update_product_price call yet
NoArgs ==
    [name |-> <<>>, new_price |-> 0, width |-> None,
     discount_percentage |-> <<>>, min_qty |-> <<>>,
     promotion_name |-> None, volume_discounts |-> None]

ExtractInit ==
    /\ db_products = InitialCatalog
    /\ clock = 1
    /\ db_call = NoCall
    /\ mailbox = <<>>
    /\ unread = {}
    /\ inbox = {}
    /\ sent_request_thread_ids = {}
    /\ gemini \in {"none", "uninit", "ok"}
    /\ run = [r \in Runners |-> IdleRun]
    /\ started = 0
    /\ \E body \in ExtractBodies :
          ev = [op |-> "body", body |-> body, response |-> NoData, pi |-> 0,
                product |-> Product(<<>>, 0, None, <<>>, <<>>, NoValue, NoValue),
                args |-> NoArgs]

extract_frame ==
    <<db_products, clock, db_call, mail_vars, sent_request_thread_ids, gemini,
      run, started>>

\* response = self._extract_prices_with_gemini(message['body'], gemini_client)
ExtractBody ==
    /\ ev.op = "body"
    /\ ev' = [ev EXCEPT !.op = "extracted", !.pi = 1,
                        !.response = ExtractPricesWithGemini(ev.body, gemini)]
    /\ UNCHANGED extract_frame

\* one iteration of "for product in products": the product is skipped, or
\* update_product_price is called with args
HandleProduct ==
    /\ ev.op # "body"
    /\ ev.pi <= Len(ev.response.products)
    /\ LET product == ev.response.products[ev.pi]
       IN ev' = [ev EXCEPT !.pi = @ + 1, !.product = product,
                           !.op = IF ProductRejected(product) THEN "skip"
                                  ELSE "update",
                           !.args = IF ProductRejected(product) THEN NoArgs
                                    ELSE UpdateArgs(product)]
    /\ UNCHANGED extract_frame

ExtractNext ==
    \/ ExtractBody
    \/ HandleProduct

SpecExtract == ExtractInit /\ [][ExtractNext]_vars

(***************************************************************************)
(* check_replies_and_save run to completion by one caller, as a function   *)
(* of the state it starts from and of the tracked thread ids, beside       *)
(* send_price_request                                                      *)
(***************************************************************************)
\* "for product in products": the catalog and updated_products afterwards.
\* (A value bound by a singleton set is computed once, before the next
\* iteration.)
RECURSIVE RunProducts(_, _, _)
RunProducts(products, rows, updated_products) ==
    IF products = <<>> THEN [rows |-> rows, updated_products |-> updated_products]
    ELSE IF ProductRejected(Head(products))
    THEN RunProducts(Tail(products), rows, updated_products)
    ELSE LET args == UpdateArgs(Head(products))
             Verified(upd) ==
                 upd.ok /\ VerifyDatabaseUpdate(upd.rows, args.name,
                                                args.new_price, args.width)
             Applied(upd) ==
                 IF Verified(upd)
                 THEN Append(updated_products,
                             [name |-> args.name, width |-> args.width,
                              price |-> args.new_price])
                 ELSE updated_products
         IN CHOOSE out \in
                {RunProducts(Tail(products), upd.rows, Applied(upd)) :
                    upd \in {UpdateProductPrice(rows, args.name, args.new_price,
                                                args.width, args.discount_percentage,
                                                args.min_qty, args.promotion_name,
                                                args.volume_discounts, clock)}} : TRUE

\* the end of the product loop of one message: "if updated_products:"
AfterMessage(st, id, response, done, read_ok, archive_ok) ==
    IF FinalizeNeeded(done.updated_products)
    THEN [rows |-> done.rows,
          unread |-> MarkAsRead(st.unread, id, read_ok),
          inbox |-> ArchiveMessage(st.inbox, id, archive_ok),
          thread_ids |-> UntrackThread(st.thread_ids, Mail[id].thread_id),
          results |-> Append(st.results,
                             ResultEntry(Mail[id], response.products,
                                         done.updated_products)),
          finalized |-> Append(st.finalized, id)]
    ELSE [st EXCEPT !.rows = done.rows]

\* _extract_prices_with_gemini(body) of every message of Mail, by the state
\* of the client
ExtractedByMessage ==
    [client \in {"none", "ok"} |->
        [id \in MessageIds |-> ExtractPricesWithGemini(Mail[id].body, client)]]

\* "for message in messages"; st holds the catalog, the labels, the tracked
\* thread ids, results and the ids of the messages finalized so far
RECURSIVE RunMessages(_, _, _, _, _)
RunMessages(messages, st, own_email, read_ok, archive_ok) ==
    IF messages = <<>> THEN st
    ELSE CHOOSE out \in
           {IF \/ IsSelfSent(own_email, Mail[id].sender)
               \/ ~response.ok \/ response.products = <<>>
            THEN RunMessages(Tail(messages), st, own_email, read_ok, archive_ok)
            ELSE RunMessages(Tail(messages),
                             AfterMessage(st, id, response, done,
                                          read_ok, archive_ok),
                             own_email, read_ok, archive_ok) :
               id \in {Head(messages)},
               response \in {ExtractedByMessage[gemini][Head(messages)]},
               done \in {RunProducts(ExtractedByMessage[gemini][Head(messages)].products,
                                     st.rows, <<>>)}} : TRUE

\* "for query, description in queries_to_try": the messages of the first
\* query that finds any
RECURSIVE QueryLoop(_)
QueryLoop(qi) ==
    LET found == CheckInbox(queries_to_try[qi])
        outcome == QueryOutcome(found, qi)
    IN IF outcome = "process" THEN found
       ELSE IF outcome = "next" THEN QueryLoop(qi + 1) ELSE <<>>

\* check_replies_and_save from the present catalog and mailbox with
\* thread_ids for sent_request_thread_ids; read_ok and archive_ok tell
\* whether the mailbox accepts the label changes
CheckRepliesAndSave(thread_ids, own_email, read_ok, archive_ok) ==
    RunMessages(QueryLoop(1),
                [rows |-> db_products, unread |-> unread, inbox |-> inbox,
                 thread_ids |-> thread_ids, results |-> <<>>,
                 finalized |-> <<>>],
                own_email, read_ok, archive_ok)

\* the thread ids Gmail gives to the requests sent in the model
SendThreads == {"t1"}

ThreadsInit ==
    /\ db_products = InitialCatalog
    /\ clock = 1
    /\ db_call = NoCall
    /\ mailbox \in Mailboxes
    /\ unread = SeqToSet(mailbox)
    /\ inbox = SeqToSet(mailbox)
    /\ sent_request_thread_ids \in {{}, {"t3"}}
    /\ gemini \in {"none", "ok"}
    /\ run = [r \in Runners |-> IdleRun]
    /\ started = 0
    /\ ev = NoEvent

\* send_price_request: the thread id is tracked when send_email succeeds
SendPriceRequest ==
    /\ \E thread_id \in SendThreads, sent_ok \in BOOLEAN :
          /\ sent_request_thread_ids' =
                 IF sent_ok THEN sent_request_thread_ids \cup {thread_id}
                 ELSE sent_request_thread_ids
          /\ ev' = Event(IF sent_ok THEN "sent" ELSE "send_error", "ui", 0,
                         FALSE, FALSE, 0)
    /\ UNCHANGED <<catalog_vars, mail_vars, gemini, run, started>>

\* one whole check_replies_and_save of the interface
RunToCompletion ==
    /\ started < MaxRuns
    /\ \E own_email \in GetUserEmail, read_ok \in BOOLEAN, archive_ok \in BOOLEAN :
          \E out \in {CheckRepliesAndSave(sent_request_thread_ids, own_email,
                                          read_ok, archive_ok)} :
             /\ db_products' = out.rows
             /\ unread' = out.unread
             /\ inbox' = out.inbox
             /\ sent_request_thread_ids' = out.thread_ids
             /\ run' = [run EXCEPT !["ui"].own_email = own_email,
                                   !["ui"].returned = out.results,
                                   !["ui"].messages = out.finalized]
             /\ ev' = Event("return", "ui", 0, read_ok, archive_ok,
                            Len(out.results))
    /\ started' = started + 1
    /\ UNCHANGED <<clock, db_call, mailbox, gemini>>

ThreadsNext ==
    \/ SendPriceRequest
    \/ RunToCompletion

SpecThreads == ThreadsInit /\ [][ThreadsNext]_vars

(***************************************************************************)
(* utils.parse_volume_discounts applied to tier texts and quantities.  A   *)
(* text is a sequence of tokens: numbers, words and the characters the     *)
(* regular expressions of the function look for; white space is left out.  *)
(***************************************************************************)
Tok(k, v) == [k |-> k, v |-> v]

Num(n) == Tok("num", n)

Sym(c) == Tok(c, 0)

\* the text of a tier "<min>-<max> sqft: <pct>% off", "<min>+ sqft: <pct>% off",
\* or of a sentence that is no tier
RenderTier(tier) ==
    IF tier.kind = "range"
    THEN << Num(tier.min), Sym("-"), Num(tier.max), Sym("sqft"), Sym(":"),
            Num(tier.pct), Sym("%"), Sym("off") >>
    ELSE IF tier.kind = "plus"
    THEN << Num(tier.min), Sym("+"), Sym("sqft"), Sym(":"),
            Num(tier.pct), Sym("%"), Sym("off") >>
    ELSE << Sym("call"), Sym("us") >>

\* the tiers joined by ", "
RECURSIVE RenderTiers(_)
RenderTiers(tiers) ==
    IF tiers = <<>> THEN <<>>
    ELSE IF Len(tiers) = 1 THEN RenderTier(Head(tiers))
    ELSE RenderTier(Head(tiers)) \o <<Sym(",")>> \o RenderTiers(Tail(tiers))

\* discount_str.split(',')
RECURSIVE SplitComma(_, _)
SplitComma(text, piece) ==
    IF text = <<>> THEN <<piece>>
    ELSE IF Head(text).k = ","
    THEN <<piece>> \o SplitComma(Tail(text), <<>>)
    ELSE SplitComma(Tail(text), Append(piece, Head(text)))

\* the leftmost position where the kinds pattern matches; 0 when none does
FirstMatch(tier, pattern) ==
    LET hits == {i \in 1..(Len(tier) - Len(pattern) + 1) :
                    \A j \in 1..Len(pattern) : tier[i + j - 1].k = pattern[j]}
    IN IF hits = {} THEN 0 ELSE CHOOSE i \in hits : \A j \in hits : i <= j

HasSym(tier, c) == \E i \in 1..Len(tier) : tier[i].k = c

\* the body of "for tier in tiers": best_discount after this tier
TierDiscount(tier, quantity, best_discount) ==
    LET pct_match == FirstMatch(tier, <<"num", "%">>)
        min_qty_match == FirstMatch(tier, <<"num", "+">>)
        range_match == FirstMatch(tier, <<"num", "-", "num">>)
        Max(a, b) == IF a >= b THEN a ELSE b
    IN IF tier = <<>> \/ pct_match = 0 THEN best_discount
       ELSE IF HasSym(tier, "+")
       THEN IF min_qty_match # 0 /\ quantity >= tier[min_qty_match].v
            THEN Max(best_discount, tier[pct_match].v) ELSE best_discount
       ELSE IF HasSym(tier, "-")
       THEN IF /\ range_match # 0
               /\ tier[range_match].v <= quantity
               /\ quantity <= tier[range_match + 2].v
            THEN Max(best_discount, tier[pct_match].v) ELSE best_discount
       ELSE best_discount

RECURSIVE BestDiscount(_, _, _)
BestDiscount(tiers, quantity, best_discount) ==
    IF tiers = <<>> THEN best_discount
    ELSE BestDiscount(Tail(tiers), quantity,
                      TierDiscount(Head(tiers), quantity, best_discount))

\* parse_volume_discounts(discount_str, quantity), in percent
ParseVolumeDiscounts(discount_str, quantity) ==
    IF discount_str = <<>> \/ quantity = 0 THEN 0
    ELSE BestDiscount(SplitComma(discount_str, <<>>), quantity, 0)

\* longest tier list of the model
MaxTiers == 2

\* the tiers of the docstring and of overlapping ranges, and a sentence
TierPool ==
    { [kind |-> "range", min |-> 500, max |-> 999, pct |-> 5],
      [kind |-> "plus", min |-> 1000, max |-> 0, pct |-> 10],
      [kind |-> "range", min |-> 0, max |-> 1000, pct |-> 5],
      [kind |-> "plus", min |-> 500, max |-> 0, pct |-> 8],
      [kind |-> "words", min |-> 0, max |-> 0, pct |-> 0] }

TierLists == UNION {[1..n -> TierPool] : n \in 0..MaxTiers}

Quantities == {0, 100, 500, 700, 999, 1000, 1200}

VolumeInit ==
    /\ db_products = InitialCatalog
    /\ clock = 1
    /\ db_call = NoCall
    /\ mailbox = <<>>
    /\ unread = {}
    /\ inbox = {}
    /\ sent_request_thread_ids = {}
    /\ gemini = "none"
    /\ run = [r \in Runners |-> IdleRun]
    /\ started = 0
    /\ \E tiers \in TierLists, quantity \in Quantities :
          ev = [op |-> "tiers", tiers |-> tiers,
                discount_str |-> RenderTiers(tiers), quantity |-> quantity,
                discount |-> 0]

\* discount = parse_volume_discounts(discount_str, quantity)
EvaluateTiers ==
    /\ ev.op = "tiers"
    /\ ev' = [ev EXCEPT !.op = "discount",
                        !.discount = ParseVolumeDiscounts(ev.discount_str,
                                                          ev.quantity)]
    /\ UNCHANGED extract_frame

VolumeNext == EvaluateTiers

SpecVolume == VolumeInit /\ [][VolumeNext]_vars

(***************************************************************************)
(* Database.is_promotion_active and Database.get_promotion_days_remaining  *)
(* applied to date strings.  A moment is a number of seconds: the day      *)
(* number times the seconds of a day plus the seconds into the day.  A     *)
(* string is a sequence of tokens: a date, a time, the separator between   *)
(* them, or other words.                                                   *)
(***************************************************************************)
SecondsPerDay == 86400

Moment(day, sec) == day * SecondsPerDay + sec

\* the string of a stored date: absent, "YYYY-MM-DD", "YYYY-MM-DD HH:MM:SS",
\* "YYYY-MM-DDTHH:MM:SS", or a text that is no date
RenderDate(d) ==
    IF d.form = "absent" THEN <<>>
    ELSE IF d.form = "date" THEN << Tok("date", d.day) >>
    ELSE IF d.form = "space"
    THEN << Tok("date", d.day), Sym(" "), Tok("time", d.sec) >>
    ELSE IF d.form = "T"
    THEN << Tok("date", d.day), Sym("T"), Tok("time", d.sec) >>
    ELSE << Sym("n/a") >>

\* "s.split()[0] if ' ' in s else s"
DatePortion(s) ==
    IF HasSym(s, " ")
    THEN SubSeq(s, 1, (CHOOSE i \in 1..Len(s) :
                          /\ s[i].k = " "
                          /\ \A j \in 1..(i - 1) : s[j].k # " ") - 1)
    ELSE s

\* datetime.fromisoformat: ok is FALSE where it raises ValueError
FromIsoFormat(s) ==
    IF Len(s) = 1 /\ s[1].k = "date"
    THEN [ok |-> TRUE, at |-> Moment(s[1].v, 0)]
    ELSE IF Len(s) = 3 /\ s[1].k = "date" /\ s[2].k \in {"T", " "} /\ s[3].k = "time"
    THEN [ok |-> TRUE, at |-> Moment(s[1].v, s[3].v)]
    ELSE [ok |-> FALSE, at |-> 0]

\* end.replace(hour=23, minute=59, second=59)
EndOfDay(at) == (at \div SecondsPerDay) * SecondsPerDay + (SecondsPerDay - 1)

\* Database.is_promotion_active with datetime.now() = current_date
IsPromotionActive(promotion_start_date, promotion_end_date, current_date) ==
    IF promotion_start_date = <<>> \/ promotion_end_date = <<>> THEN FALSE
    ELSE LET start == FromIsoFormat(DatePortion(promotion_start_date))
             end == FromIsoFormat(DatePortion(promotion_end_date))
         IN IF ~start.ok \/ ~end.ok THEN FALSE
            ELSE start.at <= current_date /\ current_date <= EndOfDay(end.at)

\* Database.get_promotion_days_remaining with datetime.now() = current_date
GetPromotionDaysRemaining(promotion_end_date, current_date) ==
    IF promotion_end_date = <<>> THEN 0
    ELSE LET end == FromIsoFormat(DatePortion(promotion_end_date))
             days_remaining == (end.at - current_date) \div SecondsPerDay
         IN IF ~end.ok THEN 0
            ELSE IF days_remaining > 0 THEN days_remaining ELSE 0

\* the days of the model are 1..MaxDay
MaxDay == 3

\* 00:00:00, 10:00:00 and 23:59:59
DayTimes == {0, 36000, SecondsPerDay - 1}

StoredDates ==
    {[form |-> "absent", day |-> 0, sec |-> 0], [form |-> "words", day |-> 0, sec |-> 0]}
        \cup {[form |-> "date", day |-> d, sec |-> 0] : d \in 1..MaxDay}
        \cup {[form |-> f, day |-> d, sec |-> s] :
                 f \in {"space", "T"}, d \in 1..MaxDay, s \in DayTimes}

PromoInit ==
    /\ db_products = InitialCatalog
    /\ clock = 1
    /\ db_call = NoCall
    /\ mailbox = <<>>
    /\ unread = {}
    /\ inbox = {}
    /\ sent_request_thread_ids = {}
    /\ gemini = "none"
    /\ run = [r \in Runners |-> IdleRun]
    /\ started = 0
    /\ \E start \in StoredDates, end \in StoredDates,
          day \in 1..MaxDay, sec \in DayTimes :
          ev = [op |-> "dates", start |-> start, end |-> end,
                promotion_start_date |-> RenderDate(start),
                promotion_end_date |-> RenderDate(end),
                current_date |-> Moment(day, sec),
                is_active |-> FALSE, days_remaining |-> 0]

\* is_active = db.is_promotion_active(start_date, end_date)
CheckPromotionActive ==
    /\ ev.op = "dates"
    /\ ev' = [ev EXCEPT !.op = "is_active",
                        !.is_active = IsPromotionActive(ev.promotion_start_date,
                                                        ev.promotion_end_date,
                                                        ev.current_date)]
    /\ UNCHANGED extract_frame

\* days_left = db.get_promotion_days_remaining(end_date)
CountDaysRemaining ==
    /\ ev.op = "dates"
    /\ ev' = [ev EXCEPT !.op = "days_remaining",
                        !.days_remaining =
                            GetPromotionDaysRemaining(ev.promotion_end_date,
                                                      ev.current_date)]
    /\ UNCHANGED extract_frame

PromoNext ==
    \/ CheckPromotionActive
    \/ CountDaysRemaining

SpecPromo == PromoInit /\ [][PromoNext]_vars

(***************************************************************************)
(* EmailHandler._normalize_width applied to raw width texts                *)
(***************************************************************************)
\* longest raw text made of WidthChars
MaxWidthLen == 3

WidthChars == {"7", "5", ".", " ", "-", "\"", "i"}

\* widths as suppliers write them, and a text without a number
WrittenWidths ==
    { <<"7", " ", "i", "n", "c", "h">>, <<"7", "-", "i", "n", "c", "h">>,
      <<"N", "/", "A">>, <<" ", "3", ".", "2", "5", " ", "i", "n">> }

RawWidths ==
    {None} \cup WrittenWidths
        \cup UNION {[1..n -> WidthChars] : n \in 0..MaxWidthLen}

WidthInit ==
    /\ db_products = InitialCatalog
    /\ clock = 1
    /\ db_call = NoCall
    /\ mailbox = <<>>
    /\ unread = {}
    /\ inbox = {}
    /\ sent_request_thread_ids = {}
    /\ gemini = "none"
    /\ run = [r \in Runners |-> IdleRun]
    /\ started = 0
    /\ \E raw \in RawWidths : ev = [op |-> "raw", raw |-> raw, width |-> None]

\* width = self._normalize_width(raw)
NormalizeRawWidth ==
    /\ ev.op = "raw"
    /\ ev' = [ev EXCEPT !.op = "width", !.width = NormalizeWidth(ev.raw)]
    /\ UNCHANGED extract_frame

WidthNext == NormalizeRawWidth

SpecWidth == WidthInit /\ [][WidthNext]_vars

(***************************************************************************)
(* The normalizers applied to their own results                            *)
(***************************************************************************)
\* longest name made of NameChars
MaxNameLen == 3

NameChars == {"a", "B", " ", "1", "-"}

\* names as suppliers write them
WrittenNames ==
    { <<"r", "e", "d", " ", " ", " ", "o", "a", "k">>,
      <<" ", "W", "H", "I", "T", "E", " ", "o", "a", "k", " ">>,
      <<"o", "'", "n", "e", "i", "l", " ", "3", "d">> }

RawNames == WrittenNames \cup UNION {[1..n -> NameChars] : n \in 0..MaxNameLen}

NormalizeInit ==
    /\ db_products = InitialCatalog
    /\ clock = 1
    /\ db_call = NoCall
    /\ mailbox = <<>>
    /\ unread = {}
    /\ inbox = {}
    /\ sent_request_thread_ids = {}
    /\ gemini = "none"
    /\ run = [r \in Runners |-> IdleRun]
    /\ started = 0
    /\ \/ \E name \in RawNames :
             ev = [op |-> "name", x |-> name, once |-> None, twice |-> None]
       \/ \E width \in RawWidths :
             ev = [op |-> "width", x |-> width, once |-> None, twice |-> None]

\* name = self._normalize_product_name(name)
NormalizeName ==
    /\ ev.op = "name"
    /\ ev' = [ev EXCEPT !.op = "name_once", !.once = NormalizeProductName(ev.x)]
    /\ UNCHANGED extract_frame

\* the normalized name is normalized again
NormalizeNameAgain ==
    /\ ev.op = "name_once"
    /\ ev' = [ev EXCEPT !.op = "name_twice",
                        !.twice = NormalizeProductName(ev.once)]
    /\ UNCHANGED extract_frame

\* width = self._normalize_width(width)
NormalizeWidthOnce ==
    /\ ev.op = "width"
    /\ ev' = [ev EXCEPT !.op = "width_once", !.once = NormalizeWidth(ev.x)]
    /\ UNCHANGED extract_frame

\* the normalized width is normalized again
NormalizeWidthAgain ==
    /\ ev.op = "width_once"
    /\ ev' = [ev EXCEPT !.op = "width_twice", !.twice = NormalizeWidth(ev.once)]
    /\ UNCHANGED extract_frame

NormalizeNext ==
    \/ NormalizeName
    \/ NormalizeNameAgain
    \/ NormalizeWidthOnce
    \/ NormalizeWidthAgain

SpecNormalize == NormalizeInit /\ [][NormalizeNext]_vars

(***************************************************************************)
(* The base price of a quote, computed by the quote form of app.py from    *)
(* the catalog row of the chosen product and width.  Prices are in mills,  *)
(* discounts in whole percents; an unset discount is <<>>.                 *)
(***************************************************************************)
\* the bug of a discount applied whatever the dates say
PromoActiveIgnoringDates(matching_product, current_date) ==
    /\ matching_product.discount_percentage # <<>>
    /\ matching_product.discount_percentage[1] > 0

\* "promo_active": the row has a positive discount and both dates, and
\* db.is_promotion_active(start_date, end_date)
PromoActive(matching_product, current_date) ==
    /\ matching_product.discount_percentage # <<>>
    /\ matching_product.discount_percentage[1] > 0
    /\ matching_product.promotion_start_date # <<>>
    /\ matching_product.promotion_end_date # <<>>
    /\ IsPromotionActive(matching_product.promotion_start_date,
                         matching_product.promotion_end_date, current_date)

\* "base_price" of the quote form
QuoteBasePrice(matching_product, current_date) ==
    IF PromoActive(matching_product, current_date)
    THEN (matching_product.standard_price
             * (100 - matching_product.discount_percentage[1])) \div 100
    ELSE IF matching_product.standard_price > 0
    THEN matching_product.standard_price
    ELSE matching_product.cost_price

\* the dates of the rows quoted: absent, no date, or a date of the model
QuoteDates == {d \in StoredDates : d.form \in {"absent", "words", "date"}}

QuotePrices == {0, 4000}

QuoteCosts == {0, 3000}

QuoteDiscounts == {<<>>, <<0>>, <<10>>, <<50>>}

QuoteInit ==
    /\ db_products = InitialCatalog
    /\ clock = 1
    /\ db_call = NoCall
    /\ mailbox = <<>>
    /\ unread = {}
    /\ inbox = {}
    /\ sent_request_thread_ids = {}
    /\ gemini = "none"
    /\ run = [r \in Runners |-> IdleRun]
    /\ started = 0
    /\ \E standard_price \in QuotePrices, cost_price \in QuoteCosts,
          discount_pct \in QuoteDiscounts,
          start \in QuoteDates, end \in QuoteDates,
          day \in 1..MaxDay, sec \in DayTimes :
          ev = [op |-> "quote_form",
                matching_product |->
                    [standard_price |-> standard_price, cost_price |-> cost_price,
                     discount_percentage |-> discount_pct,
                     promotion_start_date |-> RenderDate(start),
                     promotion_end_date |-> RenderDate(end)],
                current_date |-> Moment(day, sec),
                base_price |-> 0, rejected |-> FALSE]

\* "if submitted": the base price is computed; a base price of 0 or less
\* ends the request with "Invalid price data"
SubmitQuote ==
    /\ ev.op = "quote_form"
    /\ \E base_price \in {QuoteBasePrice(ev.matching_product, ev.current_date)} :
          ev' = [ev EXCEPT !.op = "submitted", !.base_price = base_price,
                           !.rejected = (base_price <= 0)]
    /\ UNCHANGED extract_frame

QuoteNext == SubmitQuote

SpecQuote == QuoteInit /\ [][QuoteNext]_vars

(***************************************************************************)
(* The two regex parsers applied to what each pattern of their lists       *)
(* matches in a body                                                       *)
(***************************************************************************)
\* the bug of a pattern loop that stops at the first pattern with a match
RECURSIVE FirstPatternMatches(_)
FirstPatternMatches(by_pattern) ==
    IF by_pattern = <<>> THEN <<>>
    ELSE IF Head(by_pattern) # <<>> THEN Head(by_pattern)
    ELSE FirstPatternMatches(Tail(by_pattern))

\* "for pattern in patterns: for match in re.finditer(pattern, ...)": the
\* matches in the order they are handled
RECURSIVE PatternMatches(_)
PatternMatches(by_pattern) ==
    IF by_pattern = <<>> THEN <<>>
    ELSE Head(by_pattern) \o PatternMatches(Tail(by_pattern))

\* the number of patterns of EmailHandler._fallback_email_parse and of
\* GeminiClient._fallback_email_parse
PatternCount == [handler |-> 7, gemini |-> 4]

\* what one match holds: the name and the price as matched, and the digits of
\* the width or None
RegexMatch(name, price, width) ==
    Product(name, price, width, <<>>, <<>>, NoValue, NoValue)

MatchPool ==
    { RegexMatch(<<"o", "a", "k">>, 4500, <<"7">>),
      RegexMatch(<<"r", "e", "d", " ", " ", "O", "A", "K">>, 3950, None),
      RegexMatch(<<"p", "i", "n", "e">>, 3000, <<"5">>),
      RegexMatch(<<"a", "s", "h">>, MAX_PRICE + 1, <<"5">>) }

\* the matches of one pattern: none, one, or the same text matched twice
MatchLists ==
    {<<>>} \cup {<<m>> : m \in MatchPool}
           \cup {<<m, m>> : m \in {RegexMatch(<<"o", "a", "k">>, 4500, <<"7">>)}}

\* the bodies in which at most two patterns match
MatchesByPattern(n) ==
    {[p \in 1..n |-> IF p = a THEN la ELSE IF p = b THEN lb ELSE <<>>] :
        a \in 1..n, b \in 1..n, la \in MatchLists, lb \in MatchLists}

\* width = f'{groups[0]}"' of GeminiClient._fallback_email_parse
QuotedWidths(matches) ==
    [i \in 1..Len(matches) |->
        [matches[i] EXCEPT !.width = IF @ = None THEN None ELSE @ \o <<"\"">>]]

RegexInit ==
    /\ db_products = InitialCatalog
    /\ clock = 1
    /\ db_call = NoCall
    /\ mailbox = <<>>
    /\ unread = {}
    /\ inbox = {}
    /\ sent_request_thread_ids = {}
    /\ gemini = "none"
    /\ run = [r \in Runners |-> IdleRun]
    /\ started = 0
    /\ \E parser \in {"handler", "gemini"} :
          \E by_pattern \in MatchesByPattern(PatternCount[parser]) :
             ev = [op |-> "content", parser |-> parser,
                   by_pattern |-> by_pattern, response |-> NoData]

\* self._fallback_email_parse(email_body) of the EmailHandler
HandlerRegexParse ==
    /\ ev.op = "content" /\ ev.parser = "handler"
    /\ ev' = [ev EXCEPT !.op = "parsed",
                        !.response = HandlerFallback(
                            Body("error", <<>>, <<>>,
                                 PatternMatches(ev.by_pattern), NoValue, NoValue))]
    /\ UNCHANGED extract_frame

\* self._fallback_email_parse(email_content) of the GeminiClient
GeminiRegexParse ==
    /\ ev.op = "content" /\ ev.parser = "gemini"
    /\ ev' = [ev EXCEPT !.op = "parsed",
                        !.response = GeminiFallback(
                            Body("error", <<>>,
                                 QuotedWidths(PatternMatches(ev.by_pattern)),
                                 <<>>, NoValue, NoValue))]
    /\ UNCHANGED extract_frame

RegexNext ==
    \/ HandlerRegexParse
    \/ GeminiRegexParse

SpecRegex == RegexInit /\ [][RegexNext]_vars

(***************************************************************************)
(* SchedulerService: the script threads of the interface each construct    *)
(* the service and call start_scheduler.  One step is one statement; the   *)
(* class attributes, the attributes of the instance, the jobs of the       *)
(* schedule module and the threads started are shared.                     *)
(***************************************************************************)
\* the script threads (one per browser session that reruns the script)
ScriptThreads == {"s1", "s2"}

\* how often each thread runs the initialisation of the script
MaxCalls == 2

\* the jobs one _setup_jobs registers: the weekly update and five daily checks
JobsPerSetup == 6

SchedulerInit ==
    /\ db_products = InitialCatalog
    /\ clock = 1
    /\ db_call = NoCall
    /\ mailbox = <<>>
    /\ unread = {}
    /\ inbox = {}
    /\ sent_request_thread_ids = {}
    /\ gemini = "none"
    /\ run = [r \in Runners |-> IdleRun]
    /\ started = 0
    /\ ev = [op |-> "scheduler",
             instance |-> "None",      \* cls._instance
             created |-> 0,            \* objects made by super().__new__
             lock |-> "free",          \* holder of cls._lock
             is_running |-> "unset",   \* attribute of the instance
             thread |-> "unset",       \* attribute of the instance
             jobs |-> 0,               \* jobs held by the schedule module
             threads |-> 0,            \* Thread.start() calls
             errors |-> 0,             \* "Scheduler initialization error"
             pc |-> [t \in ScriptThreads |-> "idle"],
             calls |-> [t \in ScriptThreads |-> 0]]

\* thread t moves to pc 'to' and the shared state becomes 'shared'
Goto(t, to, shared) ==
    /\ ev' = [shared EXCEPT !.pc[t] = to]
    /\ UNCHANGED extract_frame

\* "scheduler = SchedulerService(db, email_handler, gemini)" is reached
BeginScript(t) ==
    /\ ev.pc[t] = "idle"
    /\ ev.calls[t] < MaxCalls
    /\ Goto(t, "new", [ev EXCEPT !.calls[t] = @ + 1])

\* __new__: "if not cls._instance:" outside the lock
NewOuterCheck(t) ==
    /\ ev.pc[t] = "new"
    /\ Goto(t, IF ev.instance = "None" THEN "acquire" ELSE "start", ev)

\* "with cls._lock:" entered
NewAcquireLock(t) ==
    /\ ev.pc[t] = "acquire"
    /\ ev.lock = "free"
    /\ Goto(t, "locked", [ev EXCEPT !.lock = t])

\* "if not cls._instance:" under the lock
NewInnerCheck(t) ==
    /\ ev.pc[t] = "locked"
    /\ Goto(t, IF ev.instance = "None" THEN "create" ELSE "release", ev)

\* "cls._instance = super(SchedulerService, cls).__new__(cls)": the class
\* attribute holds an object that has no attributes yet
NewCreateInstance(t) ==
    /\ ev.pc[t] = "create"
    /\ Goto(t, "fields", [ev EXCEPT !.instance = "object", !.created = @ + 1,
                                    !.is_running = "unset", !.thread = "unset"])

\* db, email_handler and gemini_client are stored, then
\* "cls._instance.is_running = False"
NewSetIsRunning(t) ==
    /\ ev.pc[t] = "fields"
    /\ Goto(t, "thread_none", [ev EXCEPT !.is_running = "False"])

\* "cls._instance.thread = None"
NewSetThread(t) ==
    /\ ev.pc[t] = "thread_none"
    /\ Goto(t, "release", [ev EXCEPT !.thread = "None"])

\* the with block is left, "return cls._instance"
NewReleaseLock(t) ==
    /\ ev.pc[t] = "release"
    /\ Goto(t, "start", [ev EXCEPT !.lock = "free"])

\* start_scheduler: "if self.is_running: return"; reading an attribute that
\* is not set yet raises AttributeError, which the script catches
StartSchedulerCheck(t) ==
    /\ ev.pc[t] = "start"
    /\ IF ev.is_running = "unset"
       THEN Goto(t, "idle", [ev EXCEPT !.errors = @ + 1])
       ELSE IF ev.is_running = "True" THEN Goto(t, "idle", ev)
       ELSE Goto(t, "setup", ev)

\* "self._setup_jobs()": six schedule....do(...) registrations
SetupJobs(t) ==
    /\ ev.pc[t] = "setup"
    /\ Goto(t, "set_running", [ev EXCEPT !.jobs = @ + JobsPerSetup])

\* "self.is_running = True"
StartSchedulerSetRunning(t) ==
    /\ ev.pc[t] = "set_running"
    /\ Goto(t, "spawn", [ev EXCEPT !.is_running = "True"])

\* "self.thread = threading.Thread(...)" and "self.thread.start()"
StartSchedulerStartThread(t) ==
    /\ ev.pc[t] = "spawn"
    /\ Goto(t, "idle", [ev EXCEPT !.thread = "Thread", !.threads = @ + 1])

SchedulerNext ==
    \E t \in ScriptThreads :
        \/ BeginScript(t)
        \/ NewOuterCheck(t)
        \/ NewAcquireLock(t)
        \/ NewInnerCheck(t)
        \/ NewCreateInstance(t)
        \/ NewSetIsRunning(t)
        \/ NewSetThread(t)
        \/ NewReleaseLock(t)
        \/ StartSchedulerCheck(t)
        \/ SetupJobs(t)
        \/ StartSchedulerSetRunning(t)
        \/ StartSchedulerStartThread(t)

SpecScheduler == SchedulerInit /\ [][SchedulerNext]_vars

(***************************************************************************)
(* Properties of check_replies_and_save                                    *)
(***************************************************************************)
\* the step of caller r that ends the product loop of its current message
FinalizeStep(r) ==
    /\ run[r].pc = "product"
    /\ run[r].pi > Len(run[r].response.products)
    /\ run'[r].pc = "message"

\* the step of caller r that re-reads the catalog after a successful update
VerifyStep(r) == run[r].pc = "verify" /\ run'[r].pc = "product"

\* the step of caller r that issues one check_inbox
QueryStep(r) == run[r].pc = "query" /\ run'[r] # run[r]

\* the message caller r is working on
CurrentId(r) == run[r].messages[run[r].mi]

\* the catalog holds a row of that name, of that width when one is given,
\* whose standard price is within a cent of price
RowWithin(rows, name, width, price) ==
    \E i \in 1..Len(rows) :
        /\ rows[i].name = name
        /\ (width = None \/ rows[i].width = width)
        /\ rows[i].standard_price - price < PriceTolerance
        /\ price - rows[i].standard_price < PriceTolerance

\* C1: a message is marked read, archived and its thread id untracked, all at
\* the end of its product loop, exactly when at least one of its products was
\* verified in this run; with no verified product the step issues none of the
\* calls and leaves the labels and the tracked thread ids as they were; no
\* other step of a run touches the labels or the tracked thread ids.
C1_FinalizeIffVerified ==
    [][\A r \in Runners :
          /\ (FinalizeStep(r) /\ Len(run[r].updated_products) > 0) =>
                /\ ev'.op = "finalize" /\ ev'.id = CurrentId(r)
                /\ ev'.marked /\ ev'.archived
                /\ unread' \in {unread, unread \ {CurrentId(r)}}
                /\ inbox' \in {inbox, inbox \ {CurrentId(r)}}
                /\ sent_request_thread_ids' =
                       sent_request_thread_ids \ {Mail[CurrentId(r)].thread_id}
          /\ (FinalizeStep(r) /\ Len(run[r].updated_products) = 0) =>
                /\ ev'.op = "finalize" /\ ~ev'.marked /\ ~ev'.archived
                /\ UNCHANGED <<unread, inbox, sent_request_thread_ids>>
          /\ (run'[r] # run[r] /\ ~FinalizeStep(r)) =>
                UNCHANGED <<unread, inbox, sent_request_thread_ids>>]_vars

\* a message with a verified product has been marked read and archived and is
\* no longer tracked
C1_Witness ==
    /\ ev.op = "finalize" /\ ev.marked /\ ev.archived /\ ev.n > 0
    /\ ev.id \notin unread /\ ev.id \notin inbox
    /\ Mail[ev.id].thread_id \notin sent_request_thread_ids

C3_ArchivedNeverFetchedAgain ==
    [][\A r \in Runners :
          (gemini = "none" /\ QueryStep(r) /\ run'[r].pc = "message")
              => \A i \in 1..Len(run'[r].messages) :
                    \/ run'[r].messages[i] \in unread
                    \/ run'[r].messages[i] \in inbox]_vars

C5_NoOverlappingRuns ==
    \A r \in Runners, o \in Runners :
        (r # o /\ run[r].pc # "idle") => run[o].pc = "idle"

\* C8: no message whose sender is the account's own address, whatever its
\* letter case, gets to the price extraction.
C8_SelfSentNeverProcessed ==
    ev.op = "extract" => StrLower(Mail[ev.id].sender) # StrLower(AccountAddress)

\* C9: the queries are issued in their fixed order starting with the first;
\* the next one is issued only when the last one found nothing; the messages
\* a run processes are those its last query found, and no query is issued once
\* messages were found; when the last query finds nothing the run returns the
\* empty list and has touched neither the catalog nor the mailbox.
C9_FirstNonEmptyQueryUsed ==
    [][\A r \in Runners :
          /\ (run[r].pc = "idle" /\ run'[r].pc # "idle") =>
                /\ run'[r].pc = "query" /\ run'[r].qi = 1
                /\ queries_to_try[1] = GmailQuery(PhraseRePrimeLine, TRUE)
                /\ queries_to_try[Len(queries_to_try)] =
                       GmailQuery(PhrasePriceUpdate, FALSE)
          /\ (QueryStep(r) /\ run'[r].pc = "query") =>
                /\ SelectSeq(mailbox,
                       LAMBDA id : Matches(id, queries_to_try[run[r].qi])) = <<>>
                /\ run'[r].qi = run[r].qi + 1
          /\ (QueryStep(r) /\ run'[r].pc = "message") =>
                /\ run'[r].qi = run[r].qi
                /\ run'[r].messages # <<>>
                /\ \A id \in MessageIds :
                      (\E i \in 1..Len(run'[r].messages) : run'[r].messages[i] = id)
                          <=> (/\ \E i \in 1..Len(mailbox) : mailbox[i] = id
                               /\ Matches(id, queries_to_try[run[r].qi]))
          /\ (QueryStep(r) /\ run'[r].pc = "idle") =>
                /\ run[r].qi = Len(queries_to_try)
                /\ \A id \in MessageIds :
                      (\E i \in 1..Len(mailbox) : mailbox[i] = id)
                          => ~Matches(id, queries_to_try[run[r].qi])
                /\ run'[r].returned = <<>>
                /\ UNCHANGED <<db_products, mailbox, unread, inbox,
                               sent_request_thread_ids>>
          /\ run[r].pc \in {"message", "product", "verify"} =>
                /\ run'[r].pc # "query"
                /\ run'[r].qi = run[r].qi
                /\ run'[r].messages = run[r].messages]_vars

\* a run processes what its last, broadest query found after the six queries
\* before it found nothing
C9_Witness ==
    \E r \in Runners :
        /\ run[r].pc = "product" /\ run[r].qi = Len(queries_to_try)
        /\ run[r].messages = <<4>>

\* a record the model's answer holds is valid on its own: a non-empty string
\* for a name and a number within the price band
RecordValidAlone(raw) ==
    /\ raw.name.t = "str" /\ Strip(raw.name.s) # <<>>
    /\ raw.price.t = "num"
    /\ MIN_PRICE <= raw.price.v /\ raw.price.v <= MAX_PRICE

\* C10: every record of an LLM answer that is valid on its own is among the
\* products the extraction hands to the product loop, whatever the other
\* records of the same answer are.
C10_SiblingsStillProcessed ==
    (ev.op = "extract" /\ gemini = "ok" /\ Mail[ev.id].body.llm.status = "ok") =>
        \A i \in 1..Len(Mail[ev.id].body.llm.products) :
            LET raw == Mail[ev.id].body.llm.products[i]
            IN RecordValidAlone(raw) =>
                  \E j \in 1..Len(run[ev.r].response.products) :
                      /\ run[ev.r].response.products[j].name = Strip(raw.name.s)
                      /\ run[ev.r].response.products[j].price_per_sqft = raw.price.v

(***************************************************************************)
(* Properties of the Database operations                                   *)
(***************************************************************************)
\* the rows that update_product_price(name, ..., width) is to match
MatchedRows(rows, name, width) ==
    {i \in 1..Len(rows) :
        rows[i].name = name /\ (width = None \/ rows[i].width = width)}

\* C6: update_product_price returns False when no row matches the name (and
\* the width, when one is given); when it returns True, for every width
\* argument including None, the matched rows hold the given standard price
\* and the time of the call as their updated_at.
C6_UpdatePriceContract ==
    db_call.op = "update_price" =>
        LET matched == MatchedRows(db_products, db_call.name, db_call.width)
        IN /\ matched = {} => ~db_call.ok
           /\ db_call.ok =>
                 \A i \in matched :
                     /\ db_products[i].standard_price = db_call.price
                     /\ db_products[i].updated_at = db_call.at

\* C7: no two rows of the products table share both name and width.
C7_UniqueNameWidth ==
    \A i \in 1..Len(db_products), j \in 1..Len(db_products) :
        (i # j) => ~(/\ db_products[i].name = db_products[j].name
                     /\ db_products[i].width = db_products[j].width)

\* C13: the list a run returns grows by exactly one entry at the end of the
\* product loop of a message with verified products, and that entry holds
\* the message's sender, exactly its verified products and their number; a
\* message without a verified product, a message that yields no product and
\* a skipped message add no entry; the run returns the list as it then is.
C13_OneResultPerAppliedMessage ==
    [][\A r \in Runners :
          /\ (FinalizeStep(r) /\ run[r].updated_products # <<>>) =>
                /\ Len(run'[r].results) = Len(run[r].results) + 1
                /\ SubSeq(run'[r].results, 1, Len(run[r].results)) = run[r].results
                /\ LET entry == run'[r].results[Len(run'[r].results)]
                   IN /\ entry.supplier = Mail[CurrentId(r)].sender
                      /\ entry.products = run[r].updated_products
                      /\ entry.count = Len(run[r].updated_products)
                      /\ entry.status = "processed"
          /\ (FinalizeStep(r) /\ run[r].updated_products = <<>>) =>
                run'[r].results = run[r].results
          /\ (run'[r].results # run[r].results /\ ~FinalizeStep(r)) =>
                run[r].pc \in {"idle", "query"} /\ run'[r].results = <<>>
          /\ (run[r].pc = "message" /\ run'[r].pc = "idle") =>
                run'[r].returned = run[r].results]_vars

\* a run that fetched two messages, of which one yielded no product, has
\* returned one entry
C13_Witness ==
    /\ ev.op = "return" /\ mailbox = <<1, 5>>
    /\ Len(run[ev.r].messages) = 2
    /\ Len(run[ev.r].returned) = 1
    /\ run[ev.r].returned[1].count = 1

\* what a run that started now would fetch: the result of the first query
\* that finds a message
RECURSIVE FetchFrom(_)
FetchFrom(qi) ==
    IF qi > Len(queries_to_try) THEN <<>>
    ELSE IF \E i \in 1..Len(mailbox) : Matches(mailbox[i], queries_to_try[qi])
         THEN SelectSeq(mailbox, LAMBDA id : Matches(id, queries_to_try[qi]))
         ELSE FetchFrom(qi + 1)

\* one of the price updates a message asks for is in the catalog
SomeUpdateCommitted(id) ==
    LET products == ExtractPricesWithGemini(Mail[id].body, gemini).products
    IN \E i \in 1..Len(products) :
          \E k \in 1..Len(db_products) :
              /\ db_products[k].name = NormalizeProductName(products[i].name)
              /\ products[i].width # None =>
                    db_products[k].width = NormalizeWidth(products[i].width)
              /\ db_products[k].standard_price - products[i].price_per_sqft
                    < PriceTolerance
              /\ products[i].price_per_sqft - db_products[k].standard_price
                    < PriceTolerance

\* C14: wherever a run stops, every message that is no longer unread or no
\* longer in the inbox has one of its price updates in the catalog, every
\* product a caller holds as verified is in the catalog, and every message of
\* the batch that the caller has not finalized and that is still unread and in
\* the inbox is among the messages a run started now would fetch; a step
\* that is not the end of the product loop of a message with verified
\* products takes no label off a message.
C14_StoppedRunLeavesConsistentState ==
    /\ [](/\ \A i \in 1..Len(mailbox) :
                (mailbox[i] \notin inbox \/ mailbox[i] \notin unread)
                    => SomeUpdateCommitted(mailbox[i])
          /\ \A r \in Runners :
                /\ \A k \in 1..Len(run[r].updated_products) :
                      RowWithin(db_products, run[r].updated_products[k].name,
                                run[r].updated_products[k].width,
                                run[r].updated_products[k].price)
                /\ run[r].pc \in {"message", "product", "verify"} =>
                      \A k \in run[r].mi..Len(run[r].messages) :
                          (/\ run[r].messages[k] \in unread
                           /\ run[r].messages[k] \in inbox)
                              => \E j \in 1..Len(FetchFrom(1)) :
                                    FetchFrom(1)[j] = run[r].messages[k])
    /\ [][\A r \in Runners :
             (run'[r] # run[r]
                /\ ~(FinalizeStep(r) /\ run[r].updated_products # <<>>))
                 => UNCHANGED <<unread, inbox>>]_vars

\* a run stands between the two messages of its batch: the first is
\* archived and its price is in the catalog, the second is still unread and
\* in the inbox
C14_Witness ==
    \E r \in Runners :
        /\ run[r].pc = "message" /\ run[r].messages = <<1, 5>> /\ run[r].mi = 2
        /\ 1 \notin inbox /\ 1 \notin unread
        /\ SomeUpdateCommitted(1)
        /\ 5 \in inbox /\ 5 \in unread

(***************************************************************************)
(* Properties of the extraction and of the product loop                    *)
(***************************************************************************)
\* the LLM's answer to a body yields no product: the call failed, the answer
\* is no JSON or has no products list, a record makes the validation raise,
\* or no record is valid
LlmUnusable(body) ==
    \/ body.llm.status # "ok"
    \/ \E i \in 1..Len(body.llm.products) :
          body.llm.products[i].name.t \in {"null", "num"}
    \/ \A i \in 1..Len(body.llm.products) :
          ~RecordValidAlone(body.llm.products[i])

\* two product lists name the same products at the same prices and widths
SameProducts(ps, qs) ==
    /\ Len(ps) = Len(qs)
    /\ \A i \in 1..Len(ps) :
          /\ ps[i].name = qs[i].name
          /\ ps[i].price_per_sqft = qs[i].price_per_sqft
          /\ ps[i].width = qs[i].width

\* C11: the extraction returns either the no-data value or a non-empty
\* product list, never an error: without an initialized LLM client it returns
\* what the handler's regex parser finds; when the LLM's answer is unusable
\* it returns what the regex parsers find, the client's first and the
\* handler's when the client's finds nothing; when nothing finds a product
\* it returns the no-data value.
C11_ExtractNeverRaises ==
    ev.op # "body" =>
        LET body == ev.body
            res == ev.response
            gres == GeminiFallback(body)
            hres == HandlerFallback(body)
        IN /\ res.ok <=> res.products # <<>>
           /\ gemini # "ok" => res = hres
           /\ (gemini = "ok" /\ LlmUnusable(body)) =>
                 IF gres.ok THEN res.ok /\ SameProducts(res.products, gres.products)
                 ELSE res = hres
           /\ (/\ gemini # "ok" \/ (LlmUnusable(body) /\ ~gres.ok)
               /\ ~hres.ok) => res = NoData

\* the LLM call failed and the extraction returned what a regex parser found
C11_Witness ==
    /\ ev.op = "extracted" /\ gemini = "ok"
    /\ ev.body.llm.status = "error"
    /\ ~GeminiFallback(ev.body).ok
    /\ ev.response.ok /\ ev.response.products # <<>>

\* C12: every optional field the extracted record holds (discount percentage,
\* minimum quantity, promotion, volume discounts) is an argument of the
\* update_product_price call made for the record, the name of the promotion
\* as promotion_name, whichever strategy extracted the record.
C12_OptionalFieldsPassed ==
    ev.op = "update" =>
        /\ ev.product.discount_percentage # <<>> =>
              ev.args.discount_percentage = ev.product.discount_percentage
        /\ ev.product.min_qty_discount # <<>> =>
              ev.args.min_qty = ev.product.min_qty_discount
        /\ ev.product.promotion.s # None =>
              ev.args.promotion_name = ev.product.promotion.s
        /\ ev.product.volume_discounts.t # "none" =>
              ev.args.volume_discounts # None

(***************************************************************************)
(* The tracked thread ids                                                  *)
(***************************************************************************)
\* what a run returns and leaves behind, the tracked thread ids aside
RunOutcome(out) ==
    [results |-> out.results, rows |-> out.rows,
     unread |-> out.unread, inbox |-> out.inbox]

\* contents of sent_request_thread_ids a run is compared under
ComparedThreadSets ==
    {{}, RequestThreads, {Mail[id].thread_id : id \in MessageIds}}

\* the thread ids of the messages a run of "ui" finalized
FinalizedThreads(ids) == {Mail[ids[i]].thread_id : i \in 1..Len(ids)}

\* C15: sent_request_thread_ids is bookkeeping only. Whatever the set held,
\* a run started from the same catalog and mailbox, with the same account
\* address and the same answers of the mailbox, returns the results and
\* leaves the catalog and the labels that the run just made did; and the set changes only by
\* gaining the thread id of a request that was sent successfully or by
\* losing the thread ids of the messages a run finalized.
C15_ThreadIdsAreBookkeeping ==
    /\ [][ev'.op = "return" =>
            \A thread_ids \in ComparedThreadSets :
               \A out \in {CheckRepliesAndSave(thread_ids, run'["ui"].own_email,
                                                ev'.marked, ev'.archived)} :
                  RunOutcome(out)
                    = [results |-> run'["ui"].returned, rows |-> db_products',
                       unread |-> unread', inbox |-> inbox']]_vars
    /\ [][\/ sent_request_thread_ids' = sent_request_thread_ids
          \/ /\ ev'.op = "sent"
             /\ \E thread_id \in SendThreads :
                   sent_request_thread_ids' =
                       sent_request_thread_ids \cup {thread_id}
          \/ /\ ev'.op = "return"
             /\ sent_request_thread_ids' =
                    sent_request_thread_ids \
                        FinalizedThreads(run'["ui"].messages)]_vars

\* a run finalized the reply of a tracked thread and stopped tracking it,
\* while another tracked thread stays
C15_Witness ==
    /\ ev.op = "return"
    /\ run["ui"].returned # <<>>
    /\ \E id \in SeqToSet(run["ui"].messages) :
          Mail[id].thread_id \in RequestThreads \ sent_request_thread_ids
    /\ sent_request_thread_ids # {}

(***************************************************************************)
(* The price band                                                          *)
(***************************************************************************)
\* 0.01 <= p <= 1000.00, in mills
InBand(p) == 10 <= p /\ p <= 1000000

\* prices at, beside and far from the ends of the band
BandPrices == {0, 9, 10, 11, 4500, 999999, 1000000, 1000001, 2000000}

AllInBand(products) ==
    \A i \in 1..Len(products) : InBand(products[i].price_per_sqft)

\* C16: is_valid_price(p) holds exactly for 0.01 <= p <= 1000.00; the
\* validation of the LLM answer, both regex fallbacks and the product loop
\* apply that band, and update_price is never called with a price outside it.
C16_OnePriceBand ==
    /\ \A p \in BandPrices :
          /\ IsValidPrice(p) <=> InBand(p)
          /\ ~InBand(p) =>
                ProductRejected(Product(<<"o", "a", "k">>, p, None, <<>>, <<>>,
                                        NoValue, NoValue))
    /\ AllInBand(ParseEmailResponse(ev.body).products)
    /\ AllInBand(GeminiFallback(ev.body).products)
    /\ AllInBand(HandlerFallback(ev.body).products)
    /\ AllInBand(ev.response.products)
    /\ ev.op = "update" => InBand(ev.args.new_price)

\* the regex fallback matched a price just below the band beside one at its
\* lower end; only the latter was extracted and passed to update_price
C16_Witness ==
    /\ gemini = "none"
    /\ \E i \in 1..Len(ev.body.hregex) :
          ~InBand(ev.body.hregex[i].price_per_sqft)
    /\ ev.op = "update"
    /\ ev.args.new_price = 10
    /\ Len(ev.response.products) = 1

(***************************************************************************)
(* Volume discounts                                                        *)
(***************************************************************************)
\* the range of the tier contains the quantity
TierContains(tier, quantity) ==
    \/ tier.kind = "range" /\ tier.min <= quantity /\ quantity <= tier.max
    \/ tier.kind = "plus" /\ tier.min <= quantity

\* the percentages of the tiers that contain the quantity
CollectedPcts(tiers, quantity) ==
    {tiers[i].pct : i \in {j \in 1..Len(tiers) : TierContains(tiers[j], quantity)}}

\* C17: the discount for a quantity is the largest percentage among the
\* tiers whose range contains the quantity ("min-max" inclusive, "min+"
\* unbounded above), whatever the order of the tiers, and 0 when no tier
\* contains it or the text is absent or holds no tier.
C17_MaxOverContainingTiers ==
    ev.op = "discount" =>
        LET pcts == CollectedPcts(ev.tiers, ev.quantity)
        IN IF pcts = {} THEN ev.discount = 0
           ELSE /\ ev.discount \in pcts
                /\ \A pct \in pcts : pct <= ev.discount

(***************************************************************************)
(* Promotion dates                                                         *)
(***************************************************************************)
\* the string holds a date, with or without a time after it
HoldsDate(d) == d.form \in {"date", "space", "T"}

\* C18: a promotion is active exactly when both date strings are present and
\* the start date <= now <= 23:59:59 of the end date, whatever time follows
\* the dates in the strings; it is not active when a string is missing or
\* is no date.
C18_ActiveWithinDates ==
    ev.op = "is_active" =>
        (ev.is_active <=>
            /\ HoldsDate(ev.start) /\ HoldsDate(ev.end)
            /\ Moment(ev.start.day, 0) <= ev.current_date
            /\ ev.current_date <= Moment(ev.end.day, SecondsPerDay - 1))

\* C19: the days remaining are max(0, (end_of_day(end) - now).days) with
\* end_of_day at 23:59:59 of the end date, never negative, and 0 when the
\* end is missing or is no date.
C19_DaysToEndOfDay ==
    ev.op = "days_remaining" =>
        /\ ev.days_remaining >= 0
        /\ ev.days_remaining =
              IF ~HoldsDate(ev.end) THEN 0
              ELSE LET days == (Moment(ev.end.day, SecondsPerDay - 1)
                                   - ev.current_date) \div SecondsPerDay
                   IN IF days > 0 THEN days ELSE 0

(***************************************************************************)
(* Widths                                                                  *)
(***************************************************************************)
\* digits, or digits "." digits
IsNumericToken(t) ==
    /\ t # <<>>
    /\ t[1] \in Digits /\ t[Len(t)] \in Digits
    /\ \A i \in 1..Len(t) : t[i] \in Digits \cup {"."}
    /\ Cardinality({i \in 1..Len(t) : t[i] = "."}) <= 1

HasDigit(s) == \E i \in 1..Len(s) : s[i] \in Digits

\* t is the first numeric token of s: it starts at the first digit of s and
\* is the longest numeric token that starts there
IsFirstNumericToken(t, s) ==
    \E b \in 1..Len(s) :
        /\ s[b] \in Digits /\ \A j \in 1..(b - 1) : s[j] \notin Digits
        /\ \E e \in b..Len(s) :
              /\ t = SubSeq(s, b, e)
              /\ IsNumericToken(t)
              /\ \A f \in (e + 1)..Len(s) : ~IsNumericToken(SubSeq(s, b, f))

\* C20: normalize_width gives the first numeric token (integer or decimal)
\* of the raw text followed by a double quote, so '7 inch', '7-inch' and
\* '7"' all give '7"'; it gives None when the text is absent, empty or holds
\* no numeric token.
C20_FirstNumericTokenQuoted ==
    ev.op = "width" =>
        /\ IF ev.raw = None \/ ~HasDigit(ev.raw) THEN ev.width = None
           ELSE /\ ev.width # None
                /\ ev.width[Len(ev.width)] = "\""
                /\ IsFirstNumericToken(SubSeq(ev.width, 1, Len(ev.width) - 1),
                                       ev.raw)
        /\ ev.raw \in { <<"7", " ", "i", "n", "c", "h">>,
                        <<"7", "-", "i", "n", "c", "h">>, <<"7", "\"">> }
              => ev.width = <<"7", "\"">>

\* '7-inch' was normalized to '7"'
C20_Witness ==
    /\ ev.op = "width"
    /\ ev.raw = <<"7", "-", "i", "n", "c", "h">>
    /\ ev.width = <<"7", "\"">>

(***************************************************************************)
(* Idempotence of the normalizers                                          *)
(***************************************************************************)
\* C21: normalizing a normalized product name gives the same name, and
\* normalize_width of a width it returned (other than None) gives that width.
C21_NormalizersIdempotent ==
    /\ ev.op = "name_twice" => ev.twice = ev.once
    /\ ev.op = "width_twice" /\ ev.once # None => ev.twice = ev.once

\* a name with a run of blanks and a width with a unit were normalized
\* twice, the first time to something else than they were
C21_Witness ==
    \/ /\ ev.op = "name_twice"
       /\ ev.x = <<"r", "e", "d", " ", " ", " ", "o", "a", "k">>
       /\ ev.once = <<"R", "e", "d", " ", "O", "a", "k">>
    \/ /\ ev.op = "width_twice"
       /\ ev.x = <<"7", " ", "i", "n", "c", "h">>
       /\ ev.once = <<"7", "\"">>
       /\ ev.twice # None

(***************************************************************************)
(* The base price of a quote                                               *)
(***************************************************************************)
\* the row's promotion: a positive discount whose dates is_active accepts
RowPromoted ==
    /\ ev.matching_product.discount_percentage \notin {<<>>, <<0>>}
    /\ IsPromotionActive(ev.matching_product.promotion_start_date,
                         ev.matching_product.promotion_end_date,
                         ev.current_date)

\* C22: the base price of a quote is standard_price * (1 - discount/100)
\* when the row's promotion is active by is_active on its dates, otherwise
\* standard_price, or cost_price when standard_price is zero.
C22_EffectiveBasePrice ==
    ev.op = "submitted" =>
        IF RowPromoted
        THEN 100 * ev.base_price =
                 ev.matching_product.standard_price
                     * (100 - ev.matching_product.discount_percentage[1])
        ELSE IF ev.matching_product.standard_price # 0
        THEN ev.base_price = ev.matching_product.standard_price
        ELSE ev.base_price = ev.matching_product.cost_price

\* a row at 4.00 with 10% off was quoted at 3.60 within its promotion
C22_Witness ==
    /\ ev.op = "submitted"
    /\ ev.matching_product.standard_price = 4000
    /\ ev.matching_product.discount_percentage = <<10>>
    /\ ev.base_price = 3600
    /\ ~ev.rejected

(***************************************************************************)
(* Rows of the catalog over time                                           *)
(***************************************************************************)
HasRow(rows, name, width) ==
    \E i \in 1..Len(rows) : RowMatches(rows[i], name, width)

\* C23: no operation on the catalog removes a product row: a (name, width)
\* that has a row before a step has one after it.
C23_RowsNeverRemoved ==
    [][\A i \in 1..Len(db_products) :
          HasRow(db_products', db_products[i].name, db_products[i].width)]_vars

(***************************************************************************)
(* The regex parsers                                                       *)
(***************************************************************************)
\* the product a match stands for
MatchName(m) == NormalizeProductName(m.name)

MatchWidth(m) == IF m.width = None THEN None ELSE m.width \o <<"\"">>

\* a match whose name holds a wood type and whose price is within the band
Acceptable(m) == IsWoodName(MatchName(m)) /\ InBand(m.price_per_sqft)

\* C24: a regex parser handles the matches of every pattern of its list, not
\* only of the first pattern that matches: each match with a wood-type name
\* and a price within the band is in the product list, every product of the
\* list has such a name and price, no two products share name, width and
\* price, and the parser returns no data exactly when the list is empty.
C24_RegexCollectsAllPatterns ==
    ev.op = "parsed" =>
        LET products == ev.response.products IN
        /\ \A p \in 1..Len(ev.by_pattern) : \A k \in 1..Len(ev.by_pattern[p]) :
              LET m == ev.by_pattern[p][k]
              IN Acceptable(m) =>
                    \E i \in 1..Len(products) :
                        /\ products[i].name = MatchName(m)
                        /\ products[i].price_per_sqft = m.price_per_sqft
                        /\ products[i].width = MatchWidth(m)
        /\ \A i \in 1..Len(products) :
              /\ IsWoodName(products[i].name)
              /\ InBand(products[i].price_per_sqft)
              /\ \E p \in 1..Len(ev.by_pattern) : \E k \in 1..Len(ev.by_pattern[p]) :
                    /\ products[i].name = MatchName(ev.by_pattern[p][k])
                    /\ products[i].price_per_sqft = ev.by_pattern[p][k].price_per_sqft
        /\ \A i \in 1..Len(products), j \in 1..Len(products) :
              (i # j) =>
                 <<products[i].name, products[i].width, products[i].price_per_sqft>>
                   # <<products[j].name, products[j].width, products[j].price_per_sqft>>
        /\ ev.response.ok <=> products # <<>>
        /\ (\A p \in 1..Len(ev.by_pattern) : \A k \in 1..Len(ev.by_pattern[p]) :
               ~Acceptable(ev.by_pattern[p][k])) => ev.response = NoData

\* two patterns matched, the earlier one the same text twice: the list holds
\* that product once and the product of the later pattern after it
C24_Witness ==
    /\ ev.op = "parsed"
    /\ \E p \in 1..Len(ev.by_pattern), q \in 1..Len(ev.by_pattern) :
          /\ p < q
          /\ Len(ev.by_pattern[p]) = 2
          /\ Len(ev.by_pattern[q]) = 1 /\ Acceptable(ev.by_pattern[q][1])
    /\ Len(ev.response.products) = 2
    /\ ev.response.products[2].name = <<"R", "e", "d", " ", "O", "a", "k">>

(***************************************************************************)
(* The validated output of the LLM strategy                                *)
(***************************************************************************)
\* a number followed by a double quote, as normalize_width returns it
IsWidthForm(width) ==
    /\ Len(width) >= 2
    /\ width[Len(width)] = "\""
    /\ IsNumericToken(SubSeq(width, 1, Len(width) - 1))

\* C25: every product of the LLM strategy's validated output has a
\* non-empty name, a price within the band, a width that is None or a number
\* followed by a double quote, and carries a discount percentage or a
\* minimum quantity only when the answer held one.
C25_ValidatedOutputWellFormed ==
    (ev.body.llm.status = "ok"
        /\ \A i \in 1..Len(ev.body.llm.products) :
              ~RaisesAttributeError(ev.body.llm.products[i])) =>
        \A product \in SeqToSet(ValidateProducts(ev.body.llm.products)) :
            /\ product.name # <<>>
            /\ InBand(product.price_per_sqft)
            /\ product.width = None \/ IsWidthForm(product.width)
            /\ \E i \in 1..Len(ev.body.llm.products) :
                  LET raw == ev.body.llm.products[i]
                  IN /\ product.name = Strip(raw.name.s)
                     /\ product.discount_percentage = raw.discount_percentage
                     /\ product.min_qty_discount = raw.min_qty_discount

(***************************************************************************)
(* The completion of the widths                                            *)
(***************************************************************************)
\* the columns ensure_all_widths copies that are no price
NonPrice(row) ==
    <<row.min_qty_discount, row.discount_percentage, row.promotion_name,
      row.promotion_start_date, row.promotion_end_date, row.volume_discounts>>

\* C26: after ensure_all_widths every product name of the catalog has a row
\* for each supported width; the call returns the number of rows it
\* inserted, leaves the rows that existed unchanged, gives each new row the
\* non-price attributes of an existing row of the same name, and a second
\* call right after it inserts nothing.
C26_AllWidthsCompleted ==
    [][(db_call'.op = "ensure_all_widths" /\ clock' = clock) =>
          LET old == Len(db_products) IN
          /\ \A i \in 1..Len(db_products') : \A k \in 1..Len(SUPPORTED_WIDTHS) :
                HasRow(db_products', db_products'[i].name, SUPPORTED_WIDTHS[k])
          /\ db_call'.price = Len(db_products') - old
          /\ SubSeq(db_products', 1, old) = db_products
          /\ \A j \in (old + 1)..Len(db_products') :
                /\ ~HasRow(db_products, db_products'[j].name, db_products'[j].width)
                /\ \E i \in 1..old :
                      /\ db_products[i].name = db_products'[j].name
                      /\ NonPrice(db_products[i]) = NonPrice(db_products'[j])
          /\ EnsureAllWidths(db_products', clock') = db_products']_vars

\* the sample catalog, two names in three rows, was completed by 21 rows
C26_Witness ==
    /\ db_call.op = "ensure_all_widths"
    /\ db_call.price = 21
    /\ Len(db_products) = 24

(***************************************************************************)
(* Products without a width                                                *)
(***************************************************************************)
\* C27: a product extracted with no width, for which update_product_price
\* writes nothing, never enters the applied list of a run, and a message is
\* never archived on the strength of such products alone.
C27_NoWidthNeverApplied ==
    [][\A r \in Runners :
          /\ (VerifyStep(r) /\ run[r].cur.width = None) =>
                run'[r].updated_products = run[r].updated_products
          /\ (FinalizeStep(r) /\ CurrentId(r) \in inbox
                /\ \A i \in 1..Len(run[r].updated_products) :
                       run[r].updated_products[i].width = None) =>
                CurrentId(r) \in inbox']_vars

(***************************************************************************)
(* What update_product_price leaves alone                                  *)
(***************************************************************************)
\* the promotion columns an update without discount_percentage does not set
PromotionColumns(row) ==
    <<row.discount_percentage, row.min_qty_discount, row.promotion_name,
      row.volume_discounts>>

\* C28: update_product_price never modifies a row whose name or width
\* differs from its arguments, never changes the promotion dates of any row,
\* and without a discount_percentage leaves the discount, the minimum
\* quantity, the promotion name and the volume discounts of the matched row
\* as they were.
C28_UpdatePriceFrame ==
    [][(db_call'.op = "update_price" /\ clock' = clock) =>
          \A disc \in UpdateDiscounts :
             \A upd \in {UpdateProductPrice(db_products, db_call'.name,
                                            db_call'.price, db_call'.width, disc,
                                            <<>>, None, None, clock)} :
                (db_products' = upd.rows /\ db_call'.ok = upd.ok) =>
                   /\ Len(db_products') = Len(db_products)
                   /\ \A i \in 1..Len(db_products) :
                         /\ ~RowMatches(db_products[i], db_call'.name,
                                        db_call'.width) =>
                               db_products'[i] = db_products[i]
                         /\ db_products'[i].promotion_start_date =
                                db_products[i].promotion_start_date
                         /\ db_products'[i].promotion_end_date =
                                db_products[i].promotion_end_date
                         /\ disc = <<>> =>
                               PromotionColumns(db_products'[i]) =
                                   PromotionColumns(db_products[i])]_vars

\* a promoted row was priced without a discount and kept its promotion and
\* its dates, next to a row of the same name in another width
C28_Witness ==
    /\ db_call.op = "update_price" /\ db_call.ok
    /\ \E i, j \in 1..Len(db_products) :
          /\ RowMatches(db_products[i], db_call.name, db_call.width)
          /\ db_products[i].updated_at = db_call.at
          /\ db_products[i].cost_price = db_call.price
          /\ db_products[i].promotion_name # None
          /\ db_products[i].promotion_start_date # None
          /\ db_products[i].discount_percentage # <<>>
          /\ db_products[j].name = db_call.name
          /\ db_products[j].width # db_call.width
          /\ db_products[j].standard_price # db_call.price

(***************************************************************************)
(* Reported messages and their labels                                      *)
(***************************************************************************)
\* C29: a message for which a run appends a 'processed' result is from then
\* on, and so when the run ends, neither unread nor in the inbox, also when
\* the mailbox's mark_as_read or archive_message reports failure.
C29_ProcessedMeansReadAndArchived ==
    [][\A r \in Runners :
          (FinalizeStep(r) /\ run'[r].results # run[r].results) =>
              /\ CurrentId(r) \notin unread'
              /\ CurrentId(r) \notin inbox']_vars

(***************************************************************************)
(* The scheduler singleton                                                 *)
(***************************************************************************)
\* C30: however often and from however many threads the service is
\* constructed and started, one instance is made, its jobs are registered
\* once and at most one background thread is started.
C30_SchedulerStartedOnce ==
    /\ ev.created <= 1
    /\ ev.jobs <= JobsPerSetup
    /\ ev.threads <= 1

====
